---- MODULE Spec2Model ----
(***************************************************************************)
(* Grimoire: MagicCircleParser (src/src/grimoire/parser.py) turns detected *)
(* symbols and connections into a Program, GrimoireInterpreter             *)
(* (src/src/grimoire/interpreter.py) executes it.                          *)
(*                                                                         *)
(* Conventions of the model.                                               *)
(*  - Python list indices start at 0, the sequences here at 1.             *)
(*  - Python's None is the record None; a missing parent index is 0.       *)
(*  - A runtime value is a record [t, i, d, s, l]: t is the Python type,   *)
(*    i/d numerator and denominator of a number, s a string, l a list.     *)
(*  - The glyphs of _value_to_string are written by their code points      *)
(*    ("<U+2022>" for the bullet), strings here being ASCII.               *)
(*  - An exception is the string naming its class in the field exc;        *)
(*    "None" means no exception is propagating.                            *)
(***************************************************************************)
EXTENDS Integers, Sequences, FiniteSets, TLC

VARIABLES
    symbols,        \* MagicCircleParser.symbols
    connections,    \* MagicCircleParser.connections
    symbol_graph,   \* MagicCircleParser.symbol_graph: one node per symbol
    program,        \* the Program that parse returned (None before, and if it raised)
    parse_exc,      \* the exception that parse raised ("None" if it returned)
    interpreter,    \* the GrimoireInterpreter: envs, current_env, output_buffer, exc
    output,         \* the string that interpret returned
    pc,             \* where the caller of parse and interpret stands
    block,          \* the branches of the ParallelBlock under execution
    futures,        \* per branch: its future, its worker and its interpreter
    results         \* the list `results` of visit_parallel_block

vars == <<symbols, connections, symbol_graph, program, parse_exc, interpreter, output, pc,
          block, futures, results>>

(***************************************************************************)
(* Bounds of the model.                                                    *)
(***************************************************************************)
\* symbols of a drawing besides the outer circle
MaxInner == 3
\* explicit connections of a drawing
MaxConns == 2
\* depth at which the recursion of the parser is cut with RecursionError
\* (CPython's limit is 1000 frames; any limit above the number of symbols
\* is exceeded only by an unbounded recursion)
RecursionLimit == 8
\* branches of a ParallelBlock
MaxBranches == 2
\* statements of one branch
MaxBranchLen == 2

(***************************************************************************)
(* Runtime values and AST nodes.                                           *)
(***************************************************************************)
None == [k |-> "None"]

IntV(n) == [t |-> "int", i |-> n, d |-> 1, s |-> "", l |-> <<>>]
FloatV(n, m) == [t |-> "float", i |-> n, d |-> m, s |-> "", l |-> <<>>]
StrV(str) == [t |-> "str", i |-> 0, d |-> 1, s |-> str, l |-> <<>>]
BoolV(b) == [t |-> "bool", i |-> IF b THEN 1 ELSE 0, d |-> 1, s |-> "", l |-> <<>>]
ListV(elems) == [t |-> "list", i |-> 0, d |-> 1, s |-> "", l |-> elems]
NoneV == [t |-> "NoneType", i |-> 0, d |-> 1, s |-> "", l |-> <<>>]

Literal(v, ty) == [k |-> "Literal", value |-> v, literal_type |-> ty]
\* `found` is the number of operands that resolution found for the operator:
\* like `origin` below it is no field of the source's node
BinaryOp(l, op, r, n) ==
    [k |-> "BinaryOp", left |-> l, operator |-> op, right |-> r, found |-> n]
Identifier(n) == [k |-> "Identifier", name |-> n]
FunctionCall(f, args) == [k |-> "FunctionCall", function |-> f, arguments |-> args]

\* `origin` is the index of the symbol whose resolution built the node: it is
\* not a field of the source's node, it records which call constructed it.
OutputStatement(v, o) == [k |-> "OutputStatement", value |-> v, origin |-> o]
Assignment(name, v, o) == [k |-> "Assignment", target |-> name, value |-> v, origin |-> o]
ExpressionStatement(e, o) == [k |-> "ExpressionStatement", expression |-> e, origin |-> o]
IfStatement(c, th, el, o) ==
    [k |-> "IfStatement", condition |-> c, then_branch |-> th, else_branch |-> el, origin |-> o]
WhileLoop(c, b, o) == [k |-> "WhileLoop", condition |-> c, body |-> b, origin |-> o]
ForLoop(s, e, st, b, o) ==
    [k |-> "ForLoop", counter |-> "loop_counter", start |-> s, end |-> e, step |-> st,
     body |-> b, origin |-> o]
ParallelBlock(br, o) == [k |-> "ParallelBlock", branches |-> br, origin |-> o]
ReturnStatement(v, o) == [k |-> "ReturnStatement", value |-> v, origin |-> o]
FunctionDef(params, b, main, o) ==
    [k |-> "FunctionDef", parameters |-> params, body |-> b, is_main |-> main, origin |-> o]
Program(m, fs, gs) ==
    [k |-> "Program", has_outer_circle |-> TRUE, main_entry |-> m, functions |-> fs,
     globals |-> gs]

(***************************************************************************)
(* Symbols, connections and the symbol graph.                              *)
(***************************************************************************)
OperatorTypes == {"CONVERGENCE", "DIVERGENCE", "AMPLIFICATION", "DISTRIBUTION"}

Symbol(ty, pos, pat) == [type |-> ty, position |-> pos, size |-> 30, pattern |-> pat]
Connection(a, b) == [from_symbol |-> a, to_symbol |-> b]

SymbolNode(sym) == [symbol |-> sym, visited |-> FALSE, ast_node |-> None,
                    parent |-> 0, children |-> <<>>]

\* first index whose symbol has the type, position and size of sym; 0 for None
_get_symbol_index(syms, sym) ==
    LET hits == {i \in 1..Len(syms) :
                    /\ syms[i].type = sym.type
                    /\ syms[i].position = sym.position
                    /\ syms[i].size = sym.size}
    IN IF hits = {} THEN 0 ELSE CHOOSE i \in hits : \A j \in hits : i <= j

\* from_node.children.append(to_node); to_node.parent = from_node
AddEdge(g, from, to) ==
    [g EXCEPT ![from].children = Append(@, to), ![to].parent = from]

\* a variant that takes any circle-like symbol for the outer circle
_find_outer_circle_any_circle(syms) ==
    \E i \in 1..Len(syms) : syms[i].type \in {"OUTER_CIRCLE", "DOUBLE_CIRCLE", "CIRCLE"}

_find_outer_circle(syms) == \E i \in 1..Len(syms) : syms[i].type = "OUTER_CIRCLE"

(***************************************************************************)
(* Connection inference (no explicit connections).                         *)
(***************************************************************************)
\* squared Euclidean distance; math.sqrt is monotone, so dist < 150 is
\* Dist2 < 150 * 150 and the order by dist is the order by Dist2
Dist2(p, q) == (p[1] - q[1]) * (p[1] - q[1]) + (p[2] - q[2]) * (p[2] - q[2])

Abs(n) == IF n < 0 THEN -n ELSE n

\* the least index of `cands` at minimal distance from pos (a stable sort
\* by distance keeps equal distances in index order); 0 if there is none
Nearest(syms, cands, pos) ==
    IF cands = {} THEN 0
    ELSE CHOOSE j \in cands : \A m \in cands :
            \/ Dist2(syms[j].position, pos) < Dist2(syms[m].position, pos)
            \/ /\ Dist2(syms[j].position, pos) = Dist2(syms[m].position, pos)
               /\ j <= m

\* rule 1: the first DOUBLE_CIRCLE becomes parent of the symbols below it
RECURSIVE InferMain(_, _, _, _)
InferMain(syms, g, main_idx, i) ==
    IF i > Len(syms) THEN g
    ELSE LET hit == /\ syms[i].type # "OUTER_CIRCLE"
                    /\ i # main_idx
                    /\ syms[i].position[2] > syms[main_idx].position[2]
                    /\ Abs(syms[i].position[1] - syms[main_idx].position[1]) < 150
         IN InferMain(syms, IF hit THEN AddEdge(g, main_idx, i) ELSE g, main_idx, i + 1)

\* rule 2: an operator becomes child of its two nearest squares
RECURSIVE InferOperators(_, _, _)
InferOperators(syms, g, i) ==
    IF i > Len(syms) THEN g
    ELSE IF syms[i].type \notin OperatorTypes THEN InferOperators(syms, g, i + 1)
    ELSE LET nearby == {j \in 1..Len(syms) :
                            /\ j # i
                            /\ syms[j].type = "SQUARE"
                            /\ Dist2(syms[j].position, syms[i].position) < 150 * 150}
             n1 == Nearest(syms, nearby, syms[i].position)
             n2 == Nearest(syms, nearby \ {n1}, syms[i].position)
             g1 == IF n1 # 0 THEN AddEdge(g, n1, i) ELSE g
             g2 == IF n2 # 0 THEN AddEdge(g1, n2, i) ELSE g1
         IN InferOperators(syms, g2, i + 1)

\* rule 3: a star becomes child of the nearest symbol above it
RECURSIVE InferStars(_, _, _)
\* a variant that takes the nearest symbol on any side of the star
InferStars_any_side(syms, g, i) ==
    IF i > Len(syms) THEN g
    ELSE IF syms[i].type # "STAR" THEN InferStars(syms, g, i + 1)
    ELSE LET around == {j \in 1..Len(syms) : syms[j].type # "OUTER_CIRCLE" /\ j # i}
             nearest == Nearest(syms, around, syms[i].position)
             hit == /\ nearest # 0
                    /\ Dist2(syms[nearest].position, syms[i].position) < 150 * 150
         IN InferStars(syms, IF hit THEN AddEdge(g, nearest, i) ELSE g, i + 1)

InferStars(syms, g, i) ==
    IF i > Len(syms) THEN g
    ELSE IF syms[i].type # "STAR" THEN InferStars(syms, g, i + 1)
    ELSE LET above == {j \in 1..Len(syms) :
                            /\ syms[j].type # "OUTER_CIRCLE"
                            /\ j # i
                            /\ syms[j].position[2] < syms[i].position[2]}
             nearest == Nearest(syms, above, syms[i].position)
             hit == /\ nearest # 0
                    /\ Dist2(syms[nearest].position, syms[i].position) < 150 * 150
         IN InferStars(syms, IF hit THEN AddEdge(g, nearest, i) ELSE g, i + 1)

_infer_connections(syms, g) ==
    LET mains == {i \in 1..Len(syms) : syms[i].type = "DOUBLE_CIRCLE"}
        main_idx == IF mains = {} THEN 0 ELSE CHOOSE i \in mains : \A j \in mains : i <= j
        g1 == IF main_idx # 0 THEN InferMain(syms, g, main_idx, 1) ELSE g
    IN InferStars(syms, InferOperators(syms, g1, 1), 1)

\* the explicit connections, in list order; one whose endpoint matches no
\* symbol adds nothing
RECURSIVE ConnectAll(_, _, _, _)
\* a variant that gives up at the first connection without both endpoints
ConnectAll_until_unmatched(syms, conns, g, c) ==
    IF c > Len(conns) THEN g
    ELSE LET from_idx == _get_symbol_index(syms, conns[c].from_symbol)
             to_idx == _get_symbol_index(syms, conns[c].to_symbol)
         IN IF from_idx # 0 /\ to_idx # 0
            THEN ConnectAll(syms, conns, AddEdge(g, from_idx, to_idx), c + 1)
            ELSE g

ConnectAll(syms, conns, g, c) ==
    IF c > Len(conns) THEN g
    ELSE LET from_idx == _get_symbol_index(syms, conns[c].from_symbol)
             to_idx == _get_symbol_index(syms, conns[c].to_symbol)
         IN ConnectAll(syms, conns,
                       IF from_idx # 0 /\ to_idx # 0 THEN AddEdge(g, from_idx, to_idx) ELSE g,
                       c + 1)

\* a fresh node per symbol, then the edges
_build_symbol_graph(syms, conns) ==
    LET g == [i \in 1..Len(syms) |-> SymbolNode(syms[i])]
    IN IF conns # <<>> THEN ConnectAll(syms, conns, g, 1) ELSE _infer_connections(syms, g)

\* the nodes that have `i` among their children, in index order
_get_parents(g, i) ==
    LET ps == {j \in 1..Len(g) : \E c \in 1..Len(g[j].children) : g[j].children[c] = i}
        RECURSIVE Asc(_)
        Asc(j) == IF j > Len(g) THEN <<>>
                  ELSE (IF j \in ps THEN <<j>> ELSE <<>>) \o Asc(j + 1)
    IN Asc(1)

(***************************************************************************)
(* AST resolution.  The parser's functions mutate the nodes of the graph   *)
(* and may raise: each takes the parser state st = [g, exc] (the graph and *)
(* the propagating exception) and returns [st, res], the state after the   *)
(* call and the value returned.  Once exc is set every call returns at     *)
(* once, which is the exception unwinding the Python stack.  `depth` is    *)
(* the nesting depth of the call.                                          *)
(***************************************************************************)
R(st, res) == [st |-> st, res |-> res]

\* a local variable: `v` is computed once and named in what follows
With(v, F(_)) == F(v)

Visit(st, i) == [st EXCEPT !.g[i].visited = TRUE]

(***************************************************************************)
(* A parser that has parsed before.  parse never clears symbol_graph: the  *)
(* keys beyond the new symbols keep the nodes of earlier calls, and those  *)
(* nodes keep references to the other nodes of their own call.  A stale    *)
(* entry is [era, index]: era is the graph its call left behind, index the *)
(* node's place in it.  Stale entries are met only by _get_parents, which  *)
(* compares the node it is given with their children.                      *)
(***************************************************************************)
\* SymbolNode.__eq__ of node i of g and node j of era, two distinct objects:
\* the fields in declaration order, lists by length and then element by
\* element, and the comparison that comes back to a pair it is comparing
\* recurses until the interpreter raises
RECURSIVE NodeEq(_, _, _, _, _)
RECURSIVE ChildrenEq(_, _, _, _, _, _)
NodeEq(g, i, era, j, comparing) ==
    IF <<i, j>> \in comparing THEN "RecursionError"
    ELSE IF g[i].symbol # era[j].symbol THEN "False"
    ELSE IF g[i].visited # era[j].visited THEN "False"
    ELSE IF g[i].ast_node # era[j].ast_node THEN "False"
    ELSE IF (g[i].parent = 0) # (era[j].parent = 0) THEN "False"
    ELSE With(IF g[i].parent = 0 THEN "True"
              ELSE NodeEq(g, g[i].parent, era, era[j].parent, comparing \cup {<<i, j>>}),
              LAMBDA parent :
         IF parent # "True" THEN parent
         ELSE IF Len(g[i].children) # Len(era[j].children) THEN "False"
         ELSE ChildrenEq(g, g[i].children, era, era[j].children, 1,
                         comparing \cup {<<i, j>>}))

ChildrenEq(g, children, era, others, c, comparing) ==
    IF c > Len(children) THEN "True"
    ELSE With(NodeEq(g, children[c], era, others[c], comparing), LAMBDA r :
            IF r # "True" THEN r
            ELSE ChildrenEq(g, children, era, others, c + 1, comparing))

\* `node in sym_node.children` for the stale entries of the dictionary: no
\* comparison answers True, and one that recurses for ever raises
StaleRaises(st, i) ==
    \E s \in 1..Len(st.stale) :
        \E c \in 1..Len(st.stale[s].era[st.stale[s].index].children) :
            NodeEq(st.g, i, st.stale[s].era,
                   st.stale[s].era[st.stale[s].index].children[c], {}) = "RecursionError"

\* the parser state after _get_parents(node i) has gone through the dictionary
Lookup(st, i) ==
    IF st.exc = "None" /\ StaleRaises(st, i)
    THEN [st EXCEPT !.exc = "RecursionError"] ELSE st

\* a variant that reads the crossed-out square as false
_parse_literal_from_properties_cross_false(sym) ==
    LET pattern == sym.pattern
    IN CASE pattern = "dot" -> Literal(IntV(1), "INTEGER")
         [] pattern = "double_dot" -> Literal(IntV(2), "INTEGER")
         [] pattern = "triple_dot" -> Literal(IntV(3), "INTEGER")
         [] pattern = "multiple_dots" -> Literal(IntV(4), "INTEGER")
         [] pattern = "empty" -> Literal(IntV(0), "INTEGER")
         [] pattern = "triple_line" -> Literal(StrV("Hello, World!"), "STRING")
         [] pattern \in {"lines", "single_line", "double_line"} -> Literal(StrV("Text"), "STRING")
         [] pattern \in {"cross", "half_circle"} -> Literal(BoolV(FALSE), "BOOLEAN")
         [] pattern = "grid" -> Literal(ListV(<<>>), "ARRAY")
         [] pattern = "filled" -> Literal(IntV(-1), "INTEGER")
         [] OTHER -> Literal(IntV(0), "INTEGER")

\* the literal of a square's "pattern" property
_parse_literal_from_properties(sym) ==
    LET pattern == sym.pattern
    IN CASE pattern = "dot" -> Literal(IntV(1), "INTEGER")
         [] pattern = "double_dot" -> Literal(IntV(2), "INTEGER")
         [] pattern = "triple_dot" -> Literal(IntV(3), "INTEGER")
         [] pattern = "multiple_dots" -> Literal(IntV(4), "INTEGER")
         [] pattern = "empty" -> Literal(IntV(0), "INTEGER")
         [] pattern = "triple_line" -> Literal(StrV("Hello, World!"), "STRING")
         [] pattern \in {"lines", "single_line", "double_line"} -> Literal(StrV("Text"), "STRING")
         [] pattern = "cross" -> Literal(BoolV(TRUE), "BOOLEAN")
         [] pattern = "half_circle" -> Literal(BoolV(FALSE), "BOOLEAN")
         [] pattern = "grid" -> Literal(ListV(<<>>), "ARRAY")
         [] pattern = "filled" -> Literal(IntV(-1), "INTEGER")
         [] OTHER -> Literal(IntV(0), "INTEGER")

\* the count of a loop: a constant, whatever the counter node shows
_parse_numeric_literal(sym) == Literal(IntV(10), "INTEGER")

\* the condition of an if or a while: a constant
_parse_condition(sym) == Literal(BoolV(FALSE), "BOOLEAN")

op_map(ty) ==
    CASE ty = "CONVERGENCE" -> "ADD"
      [] ty = "DIVERGENCE" -> "SUBTRACT"
      [] ty = "AMPLIFICATION" -> "MULTIPLY"
      [] ty = "DISTRIBUTION" -> "DIVIDE"

\* a variant that takes the first two of three or more operands
BinaryOpOf_first_two(operator, operands) ==
    IF Len(operands) >= 2 THEN BinaryOp(operands[1], operator, operands[2], Len(operands))
    ELSE IF Len(operands) = 1
         THEN BinaryOp(operands[1], operator, Literal(IntV(0), "INTEGER"), 1)
         ELSE BinaryOp(Literal(IntV(0), "INTEGER"), operator, Literal(IntV(0), "INTEGER"),
                       Len(operands))

\* the BinaryOp built from the operands found
BinaryOpOf(operator, operands) ==
    IF Len(operands) = 2 THEN BinaryOp(operands[1], operator, operands[2], 2)
    ELSE IF Len(operands) = 1
         THEN BinaryOp(operands[1], operator, Literal(IntV(0), "INTEGER"), 1)
         ELSE BinaryOp(Literal(IntV(0), "INTEGER"), operator, Literal(IntV(0), "INTEGER"),
                       Len(operands))

HasOperatorChild(g, i) ==
    \E c \in 1..Len(g[i].children) : g[g[i].children[c]].symbol.type \in OperatorTypes

\* the sector (0..5) of _group_children_by_angle for the offset (dx, dy):
\* int((atan2(dy, dx) + pi) / (2 * pi / 6)) clipped to 0..5; the sector
\* borders are the lines dy * dy = 3 * dx * dx and dy = 0
Sector(dx, dy) ==
    IF dy < 0
    THEN (IF dy * dy > 3 * dx * dx THEN 1 ELSE IF dx < 0 THEN 0 ELSE 2)
    ELSE (IF dy * dy > 3 * dx * dx THEN 4
          ELSE IF dx < 0 THEN 5
          ELSE 3)

\* within one sector: atan2 of offset a is below atan2 of offset b
\* (atan2(0, 0) is 0, the angle of <<1, 0>>; the angle pi is the greatest)
AngleLess(a0, b0) ==
    LET a == IF a0 = <<0, 0>> THEN <<1, 0>> ELSE a0
        b == IF b0 = <<0, 0>> THEN <<1, 0>> ELSE b0
    IN IF a[2] = 0 /\ a[1] < 0 THEN FALSE
       ELSE IF b[2] = 0 /\ b[1] < 0 THEN a[1] * b[2] - a[2] * b[1] # 0
       ELSE a[1] * b[2] - a[2] * b[1] > 0

\* the children of node i, by sector, each group in ascending angle (the
\* sort is stable: equal angles keep the order of the children list)
_group_children_by_angle(g, i) ==
    LET ch == g[i].children
        off(c) == <<g[ch[c]].symbol.position[1] - g[i].symbol.position[1],
                    g[ch[c]].symbol.position[2] - g[i].symbol.position[2]>>
        sec(c) == Sector(off(c)[1], off(c)[2])
        before(a, b) == AngleLess(off(a), off(b)) \/ (~AngleLess(off(b), off(a)) /\ a < b)
        RECURSIVE Sorted(_)
        Sorted(cs) ==
            IF cs = {} THEN <<>>
            ELSE LET c == CHOOSE a \in cs : \A b \in cs \ {a} : before(a, b)
                 IN <<ch[c]>> \o Sorted(cs \ {c})
        group(k) == Sorted({c \in 1..Len(ch) : sec(c) = k})
        RECURSIVE Groups(_)
        Groups(k) == IF k > 5 THEN <<>>
                     ELSE (IF group(k) # <<>> THEN <<group(k)>> ELSE <<>>) \o Groups(k + 1)
    IN Groups(0)

RECURSIVE _parse_expression(_, _, _)
RECURSIVE _parse_binary_op(_, _, _)
RECURSIVE BinaryOperands(_, _, _, _, _)
RECURSIVE _parse_function_call(_, _, _)
RECURSIVE CallArguments(_, _, _, _, _)
RECURSIVE _parse_expression_from_parent(_, _, _)
RECURSIVE FirstParentExpression(_, _, _, _)
RECURSIVE _parse_statement(_, _, _)
RECURSIVE _parse_statement_sequence(_, _, _)
RECURSIVE StatementsFrom(_, _, _, _, _)
RECURSIVE _parse_if_statement(_, _, _)
RECURSIVE _parse_loop(_, _, _)
RECURSIVE _parse_parallel_block(_, _, _)
RECURSIVE BranchesFrom(_, _, _, _, _)
RECURSIVE _parse_assignment(_, _, _)
RECURSIVE FirstChildExpression(_, _, _, _)

\* an expression from node i, or None
_parse_expression(st, i, depth) ==
    IF st.exc # "None" THEN R(st, None)
    ELSE IF depth > RecursionLimit THEN R([st EXCEPT !.exc = "RecursionError"], None)
    ELSE IF st.g[i].visited /\ st.g[i].ast_node # None
    THEN \* the only ast_node ever stored is a FunctionDef, which is no Expression
         R(st, None)
    ELSE LET st1 == Visit(st, i)
             ty == st.g[i].symbol.type
         IN IF ty \in OperatorTypes THEN _parse_binary_op(st1, i, depth + 1)
            ELSE IF ty = "SQUARE" THEN R(st1, _parse_literal_from_properties(st.g[i].symbol))
            ELSE IF ty = "CIRCLE" THEN _parse_function_call(st1, i, depth + 1)
            ELSE R(st1, None)

\* the operands of an operator, gathered from parents[p..]
BinaryOperands(st, parents, p, operands, depth) ==
    IF st.exc # "None" \/ p > Len(parents) THEN R(st, operands)
    ELSE IF st.g[parents[p]].symbol.type = "SQUARE"
    THEN BinaryOperands(st, parents, p + 1,
            Append(operands, _parse_literal_from_properties(st.g[parents[p]].symbol)), depth)
    ELSE With(_parse_expression(st, parents[p], depth), LAMBDA r :
            BinaryOperands(r.st, parents, p + 1,
                IF r.res # None THEN Append(operands, r.res) ELSE operands, depth))

\* a variant that takes the first parent only for operand
_parse_binary_op_first_parent(st, i, depth) ==
    With(BinaryOperands(Lookup(st, i), SubSeq(_get_parents(st.g, i), 1, 1), 1, <<>>, depth),
         LAMBDA r :
        IF r.st.exc # "None" THEN R(r.st, None)
        ELSE R(r.st, BinaryOpOf(op_map(st.g[i].symbol.type), r.res)))

_parse_binary_op(st, i, depth) ==
    With(BinaryOperands(Lookup(st, i), _get_parents(st.g, i), 1, <<>>, depth), LAMBDA r :
        IF r.st.exc # "None" THEN R(r.st, None)
        ELSE R(r.st, BinaryOpOf(op_map(st.g[i].symbol.type), r.res)))

\* the arguments of a call, from the unvisited parents among parents[p..]
CallArguments(st, parents, p, arguments, depth) ==
    IF st.exc # "None" \/ p > Len(parents) THEN R(st, arguments)
    ELSE IF st.g[parents[p]].visited THEN CallArguments(st, parents, p + 1, arguments, depth)
    ELSE With(_parse_expression(st, parents[p], depth), LAMBDA r :
            CallArguments(r.st, parents, p + 1,
                IF r.res # None THEN Append(arguments, r.res) ELSE arguments, depth))

_parse_function_call(st, i, depth) ==
    IF st.g[i].visited THEN R(st, FunctionCall(None, <<>>))
    ELSE With(CallArguments(Lookup(Visit(st, i), i), _get_parents(st.g, i), 1, <<>>, depth),
              LAMBDA r :
            IF r.st.exc # "None" THEN R(r.st, None)
            ELSE R(r.st, FunctionCall(None, r.res)))

\* the first expression that parents[p..] resolve to, or None
FirstParentExpression(st, parents, p, depth) ==
    IF st.exc # "None" \/ p > Len(parents) THEN R(st, None)
    ELSE With(_parse_expression(st, parents[p], depth), LAMBDA r :
            IF r.res # None THEN r ELSE FirstParentExpression(r.st, parents, p + 1, depth))

_parse_expression_from_parent(st, i, depth) ==
    With(IF st.g[i].parent # 0 THEN _parse_expression(st, st.g[i].parent, depth)
         ELSE R(st, None), LAMBDA r0 :
    With(IF r0.res # None THEN r0
         ELSE FirstParentExpression(Lookup(r0.st, i), _get_parents(st.g, i), 1, depth),
         LAMBDA r1 :
        IF r1.st.exc # "None" THEN R(r1.st, None)
        ELSE IF r1.res # None THEN r1
        ELSE IF st.g[i].symbol.type = "STAR"
        THEN R(r1.st, Literal(StrV("Hello, World!"), "STRING"))
        ELSE R(r1.st, Literal(IntV(0), "INTEGER"))))

\* the statements of nodes[p..], the visited ones skipped
StatementsFrom(st, nodes, p, statements, depth) ==
    IF st.exc # "None" \/ p > Len(nodes) THEN R(st, statements)
    ELSE IF st.g[nodes[p]].visited THEN StatementsFrom(st, nodes, p + 1, statements, depth)
    ELSE With(_parse_statement(st, nodes[p], depth), LAMBDA r :
            StatementsFrom(r.st, nodes, p + 1,
                IF r.res # None THEN Append(statements, r.res) ELSE statements, depth))

_parse_statement_sequence(st, nodes, depth) == StatementsFrom(st, nodes, 1, <<>>, depth)

_parse_if_statement(st, i, depth) ==
    LET ch == st.g[i].children
        left(c) == st.g[c].symbol.position[1] < st.g[i].symbol.position[1]
        left_children == SelectSeq(ch, LAMBDA c : left(c))
        right_children == SelectSeq(ch, LAMBDA c : ~left(c))
    IN With(_parse_statement_sequence(st, left_children, depth), LAMBDA then_branch :
       With(IF right_children # <<>>
            THEN _parse_statement_sequence(then_branch.st, right_children, depth)
            ELSE R(then_branch.st, <<>>), LAMBDA else_branch :
           R(else_branch.st,
             IfStatement(_parse_condition(st.g[i].symbol), then_branch.res,
                         else_branch.res, i))))

_parse_loop(st, i, depth) ==
    LET parents == _get_parents(st.g, i)
        squares == {p \in 1..Len(parents) : st.g[parents[p]].symbol.type = "SQUARE"}
        counter_node == IF squares = {} THEN 0
                        ELSE parents[CHOOSE p \in squares : \A q \in squares : p <= q]
    IN With(_parse_statement_sequence(Lookup(st, i), st.g[i].children, depth), LAMBDA body :
          IF counter_node # 0
          THEN R(body.st, ForLoop(Literal(IntV(0), "INTEGER"),
                                  _parse_numeric_literal(st.g[counter_node].symbol),
                                  Literal(IntV(1), "INTEGER"), body.res, i))
          ELSE R(body.st, WhileLoop(_parse_condition(st.g[i].symbol), body.res, i)))

\* the branches of groups[p..], the empty ones dropped
BranchesFrom(st, groups, p, branches, depth) ==
    IF st.exc # "None" \/ p > Len(groups) THEN R(st, branches)
    ELSE With(_parse_statement_sequence(st, groups[p], depth), LAMBDA r :
            BranchesFrom(r.st, groups, p + 1,
                IF r.res # <<>> THEN Append(branches, r.res) ELSE branches, depth))

_parse_parallel_block(st, i, depth) ==
    With(BranchesFrom(st, _group_children_by_angle(st.g, i), 1, <<>>, depth), LAMBDA r :
        R(r.st, ParallelBlock(r.res, i)))

\* the first expression that children[c..] resolve to, or None
FirstChildExpression(st, children, c, depth) ==
    IF st.exc # "None" \/ c > Len(children) THEN R(st, None)
    ELSE With(_parse_expression(st, children[c], depth), LAMBDA r :
            IF r.res # None THEN r ELSE FirstChildExpression(r.st, children, c + 1, depth))

\* the variable var_{id(node)} is named by the index of its node
VarName(i) == "var_" \o ToString(i)

_parse_assignment(st, i, depth) ==
    With(FirstChildExpression(st, st.g[i].children, 1, depth), LAMBDA r :
        R(r.st, Assignment(VarName(i),
                           IF r.res # None THEN r.res
                           ELSE _parse_literal_from_properties(st.g[i].symbol), i)))

\* children[c..] marked visited
RECURSIVE VisitAll(_, _, _)
VisitAll(st, children, c) ==
    IF c > Len(children) THEN st ELSE VisitAll(Visit(st, children[c]), children, c + 1)

\* a statement from node i, or None
_parse_statement(st, i, depth) ==
    IF st.exc # "None" THEN R(st, None)
    ELSE IF depth > RecursionLimit THEN R([st EXCEPT !.exc = "RecursionError"], None)
    ELSE IF st.g[i].visited /\ st.g[i].symbol.type # "STAR" THEN R(st, None)
    ELSE LET st1 == Visit(st, i)
             ty == st.g[i].symbol.type
         IN With(CASE ty = "STAR" ->
                        With(_parse_expression_from_parent(st1, i, depth + 1), LAMBDA e :
                            R(e.st, OutputStatement(e.res, i)))
                   [] ty = "TRIANGLE" -> _parse_if_statement(st1, i, depth + 1)
                   [] ty = "PENTAGON" -> _parse_loop(st1, i, depth + 1)
                   [] ty = "HEXAGON" -> _parse_parallel_block(st1, i, depth + 1)
                   [] ty \in OperatorTypes -> R(VisitAll(st1, st1.g[i].children, 1), None)
                   [] ty = "SQUARE" ->
                        IF ~HasOperatorChild(st1.g, i) THEN _parse_assignment(st1, i, depth + 1)
                        ELSE R(st1, None)
                   [] OTHER ->
                        With(_parse_expression(st1, i, depth + 1), LAMBDA e :
                            IF e.res # None THEN R(e.st, ExpressionStatement(e.res, i))
                            ELSE R(e.st, None)),
                 LAMBDA r : IF r.st.exc # "None" THEN R(r.st, None) ELSE r)

_pattern_to_datatype(pattern) ==
    CASE pattern = "dot" -> "INTEGER"
      [] pattern = "double_dot" -> "FLOAT"
      [] pattern = "lines" -> "STRING"
      [] pattern = "half_circle" -> "BOOLEAN"
      [] pattern = "stars" -> "ARRAY"
      [] pattern = "grid" -> "MAP"
      [] OTHER -> "INTEGER"

Parameter(n, ty) == [k |-> "Parameter", name |-> n, data_type |-> ty, default_value |-> None]

\* the parameters of a function node: its square children without operator
\* child, which are marked visited; param<n> is named by n
RECURSIVE ParametersFrom(_, _, _, _)
ParametersFrom(st, i, c, parameters) ==
    LET ch == st.g[i].children
    IN IF c > Len(ch) THEN R(st, parameters)
       ELSE IF st.g[ch[c]].symbol.type = "SQUARE" /\ ~HasOperatorChild(st.g, ch[c])
       THEN ParametersFrom(Visit(st, ch[c]), i, c + 1,
                Append(parameters,
                       Parameter("param" \o ToString(Len(parameters)),
                                 _pattern_to_datatype(st.g[ch[c]].symbol.pattern))))
       ELSE ParametersFrom(st, i, c + 1, parameters)

_extract_parameters(st, i) ==
    IF st.g[i].symbol.type = "DOUBLE_CIRCLE" THEN R(st, <<>>)
    ELSE ParametersFrom(st, i, 1, <<>>)

\* a function definition from a circle; the node keeps it as its ast_node
_parse_function(st, i, is_main) ==
    IF st.g[i].visited
    THEN R(st, IF st.g[i].ast_node.k = "FunctionDef" THEN st.g[i].ast_node ELSE None)
    ELSE With(_extract_parameters(Visit(st, i), i), LAMBDA params :
         With(_parse_statement_sequence(params.st, st.g[i].children, 1), LAMBDA body :
         With(FunctionDef(params.res, body.res, is_main, i), LAMBDA func :
            IF body.st.exc # "None" THEN R(body.st, None)
            ELSE R([body.st EXCEPT !.g[i].ast_node = func], func))))

\* the index of the first DOUBLE_CIRCLE, 0 if there is none
MainIndex(syms) ==
    LET mains == {i \in 1..Len(syms) : syms[i].type = "DOUBLE_CIRCLE"}
    IN IF mains = {} THEN 0 ELSE CHOOSE i \in mains : \A j \in mains : i <= j

_find_main_entry(st) ==
    LET m == MainIndex([i \in 1..Len(st.g) |-> st.g[i].symbol])
    IN IF m # 0 THEN _parse_function(st, m, TRUE) ELSE R(st, None)

\* the functions of the unvisited circles among nodes i..
RECURSIVE FunctionsFrom(_, _, _)
FunctionsFrom(st, i, functions) ==
    IF st.exc # "None" \/ i > Len(st.g) THEN R(st, functions)
    ELSE IF st.g[i].symbol.type = "CIRCLE" /\ ~st.g[i].visited
    THEN With(_parse_function(st, i, FALSE), LAMBDA r :
            FunctionsFrom(r.st, i + 1,
                IF r.res # None THEN Append(functions, r.res) ELSE functions))
    ELSE FunctionsFrom(st, i + 1, functions)

_parse_functions(st) == FunctionsFrom(st, 1, <<>>)

\* the statements of the nodes i.. that are unvisited or stars and whose
\* type is not in `skip`
RECURSIVE GlobalsFrom(_, _, _, _)
GlobalsFrom(st, i, skip, globals) ==
    IF st.exc # "None" \/ i > Len(st.g) THEN R(st, globals)
    ELSE IF (~st.g[i].visited \/ st.g[i].symbol.type = "STAR") /\ st.g[i].symbol.type \notin skip
    THEN With(_parse_statement(st, i, 1), LAMBDA r :
            GlobalsFrom(r.st, i + 1, skip,
                IF r.res # None THEN Append(globals, r.res) ELSE globals))
    ELSE GlobalsFrom(st, i + 1, skip, globals)

_parse_global_statements(st) == GlobalsFrom(st, 1, {"OUTER_CIRCLE"}, <<>>)

\* a variant that makes no entry of the global statements
parse_on_keeping_globals(stale, syms, conns) ==
    With([g |-> _build_symbol_graph(syms, conns), exc |-> "None", stale |-> stale],
         LAMBDA st0 :
    IF ~_find_outer_circle(syms)
    THEN [g |-> st0.g, exc |-> "ParseError", program |-> None]
    ELSE
    With(_find_main_entry(st0), LAMBDA main :
    With(_parse_functions(main.st), LAMBDA functions :
    With(IF main.res # None /\ main.res.body = <<>>
         THEN GlobalsFrom(functions.st, 1, {"OUTER_CIRCLE", "DOUBLE_CIRCLE"}, <<>>)
         ELSE _parse_global_statements(functions.st), LAMBDA stmts :
       LET promote == main.res # None /\ main.res.body = <<>>
           m == MainIndex(syms)
           main_entry == IF promote THEN [main.res EXCEPT !.body = stmts.res]
                         ELSE main.res
           globals == IF promote THEN <<>> ELSE stmts.res
           g == IF promote THEN [stmts.st.g EXCEPT ![m].ast_node = main_entry] ELSE stmts.st.g
       IN IF stmts.st.exc # "None"
          THEN [g |-> stmts.st.g, exc |-> stmts.st.exc, program |-> None]
          ELSE [g |-> g, exc |-> "None",
                program |-> Program(main_entry, functions.res, globals)]))))

\* parse(symbols, connections) on a parser whose dictionary keeps the entries
\* `stale` beyond the new symbols: [g, exc, program]
parse_on(stale, syms, conns) ==
    With([g |-> _build_symbol_graph(syms, conns), exc |-> "None", stale |-> stale],
         LAMBDA st0 :
    IF ~_find_outer_circle(syms)
    THEN [g |-> st0.g, exc |-> "ParseError", program |-> None]
    ELSE
    With(_find_main_entry(st0), LAMBDA main :
    With(_parse_functions(main.st), LAMBDA functions :
    With(IF main.res # None /\ main.res.body = <<>>
         THEN GlobalsFrom(functions.st, 1, {"OUTER_CIRCLE", "DOUBLE_CIRCLE"}, <<>>)
         ELSE _parse_global_statements(functions.st), LAMBDA stmts :
       LET promote == main.res # None /\ main.res.body = <<>>
           m == MainIndex(syms)
           main_entry == IF promote THEN [main.res EXCEPT !.body = stmts.res]
                         ELSE IF main.res = None /\ stmts.res # <<>>
                         THEN FunctionDef(<<>>, stmts.res, TRUE, 0)
                         ELSE main.res
           globals == IF promote \/ main.res = None THEN <<>> ELSE stmts.res
           g == IF promote THEN [stmts.st.g EXCEPT ![m].ast_node = main_entry] ELSE stmts.st.g
       IN IF stmts.st.exc # "None"
          THEN [g |-> stmts.st.g, exc |-> stmts.st.exc, program |-> None]
          ELSE [g |-> g, exc |-> "None",
                program |-> Program(main_entry, functions.res, globals)]))))

\* parse(symbols, connections) on a new parser
parse(syms, conns) == parse_on(<<>>, syms, conns)

(***************************************************************************)
(* The interpreter.  Its state ist = [envs, current_env, output_buffer,    *)
(* exc]: envs is the heap of Environment objects ([values, parent], the    *)
(* global one at index 1, parent 0 for None), current_env an index into    *)
(* it.  Evaluation returns [st, res] as the parser's functions do.         *)
(* Floats are kept as exact fractions i/d.                                 *)
(***************************************************************************)
Environment(parent) == [values |-> <<>>, parent |-> parent]

GrimoireInterpreter ==
    [envs |-> <<Environment(0)>>, current_env |-> 1, output_buffer |-> <<>>, exc |-> "None",
     functions |-> <<>>, ret |-> NoneV]

Raise(ist, e) == [ist EXCEPT !.exc = e]

\* self.functions[key] = func
register(ist, key, func) ==
    [ist EXCEPT !.functions =
        [n \in (DOMAIN @) \cup {key} |-> IF n = key THEN func ELSE @[n]]]

\* a name that is no function of the registry: the built-ins len, range and
\* print are called by no program here, every other name is unknown
_call_builtin(ist, name, args) ==
    IF name \in {"len", "range", "print"} THEN Raise(ist, "BuiltinNotModelled")
    ELSE Raise(ist, "InterpreterError")

\* a variant that defines in the global environment
define_in_global(ist, env, name, value) ==
    [ist EXCEPT !.envs[1].values =
        [n \in (DOMAIN @) \cup {name} |-> IF n = name THEN value ELSE @[n]]]

\* Environment.define
define(ist, env, name, value) ==
    [ist EXCEPT !.envs[env].values =
        [n \in (DOMAIN @) \cup {name} |-> IF n = name THEN value ELSE @[n]]]

\* the environment of the chain from env that binds name, 0 if none does
RECURSIVE Binder(_, _, _)
Binder(ist, env, name) ==
    IF env = 0 THEN 0
    ELSE IF name \in DOMAIN ist.envs[env].values THEN env
    ELSE Binder(ist, ist.envs[env].parent, name)

\* Environment.get
get(ist, env, name) ==
    IF Binder(ist, env, name) = 0 THEN R(Raise(ist, "InterpreterError"), NoneV)
    ELSE R(ist, ist.envs[Binder(ist, env, name)].values[name])

\* Environment.set
set(ist, env, name, value) ==
    IF Binder(ist, env, name) = 0 THEN Raise(ist, "InterpreterError")
    ELSE define(ist, Binder(ist, env, name), name, value)

IsNumber(v) == v.t \in {"int", "bool", "float"}
IsIntLike(v) == v.t \in {"int", "bool"}

\* the number of Python's arithmetic: an int if both operands are ints or
\* bools, a float otherwise
Num(n, m, l, r) ==
    IF l.t = "float" \/ r.t = "float" THEN FloatV(n, m) ELSE IntV(n)

RECURSIVE Repeat(_, _)
Repeat(seq, n) == IF n <= 0 THEN <<>> ELSE seq \o Repeat(seq, n - 1)

RECURSIVE RepeatStr(_, _)
RepeatStr(str, n) == IF n <= 0 THEN "" ELSE str \o RepeatStr(str, n - 1)

\* l + r, l - r, l * r, and l / r if r != 0 else "Division by zero":
\* [exc, val]
Arith(operator, l, r) ==
    LET ok(v) == [exc |-> "None", val |-> v]
        err(e) == [exc |-> e, val |-> NoneV]
    IN CASE operator = "ADD" ->
              IF IsNumber(l) /\ IsNumber(r)
              THEN ok(Num(l.i * r.d + r.i * l.d, l.d * r.d, l, r))
              ELSE IF l.t = "str" /\ r.t = "str" THEN ok(StrV(l.s \o r.s))
              ELSE IF l.t = "list" /\ r.t = "list" THEN ok(ListV(l.l \o r.l))
              ELSE err("TypeError")
         [] operator = "SUBTRACT" ->
              IF IsNumber(l) /\ IsNumber(r)
              THEN ok(Num(l.i * r.d - r.i * l.d, l.d * r.d, l, r))
              ELSE err("TypeError")
         [] operator = "MULTIPLY" ->
              IF IsNumber(l) /\ IsNumber(r) THEN ok(Num(l.i * r.i, l.d * r.d, l, r))
              ELSE IF l.t = "str" /\ IsIntLike(r) THEN ok(StrV(RepeatStr(l.s, r.i)))
              ELSE IF IsIntLike(l) /\ r.t = "str" THEN ok(StrV(RepeatStr(r.s, l.i)))
              ELSE IF l.t = "list" /\ IsIntLike(r) THEN ok(ListV(Repeat(l.l, r.i)))
              ELSE IF IsIntLike(l) /\ r.t = "list" THEN ok(ListV(Repeat(r.l, l.i)))
              ELSE err("TypeError")
         [] operator = "DIVIDE" ->
              IF IsNumber(r) /\ r.i = 0 THEN err("InterpreterError")
              ELSE IF IsNumber(l) /\ IsNumber(r)
              THEN ok(IF r.i > 0 THEN FloatV(l.i * r.d, l.d * r.i)
                      ELSE FloatV(-(l.i * r.d), -(l.d * r.i)))
              ELSE err("TypeError")

\* _is_truthy
_is_truthy(v) ==
    CASE v.t = "bool" -> v.i = 1
      [] v.t = "NoneType" -> FALSE
      [] v.t \in {"int", "float"} -> v.i # 0
      [] v.t = "str" -> v.s # ""
      [] v.t = "list" -> v.l # <<>>

\* str() of a float i/d: the decimal expansion when it ends within six
\* digits ("2.0", "0.5"), else the quotient written as repr(i/d)
FloatStr(n, m) ==
    LET a == Abs(n)
        sign == IF n < 0 THEN "-" ELSE ""
        RECURSIVE Digits(_, _)
        Digits(rem, k) ==
            IF rem = 0 \/ k = 0 THEN ""
            ELSE ToString((rem * 10) \div m) \o Digits((rem * 10) % m, k - 1)
        RECURSIVE Ends(_, _)
        Ends(rem, k) == rem = 0 \/ (k > 0 /\ Ends((rem * 10) % m, k - 1))
    IN IF a % m = 0 THEN sign \o ToString(a \div m) \o ".0"
       ELSE IF Ends(a % m, 6) THEN sign \o ToString(a \div m) \o "." \o Digits(a % m, 6)
       ELSE "repr(" \o ToString(n) \o "/" \o ToString(m) \o ")"

\* _value_to_string; the glyphs by code point
RECURSIVE _value_to_string(_)
_value_to_string(v) ==
    LET RECURSIVE JoinElements(_, _)
        JoinElements(elems, e) ==
            IF e > Len(elems) THEN ""
            ELSE (IF e > 1 THEN ", " ELSE "") \o _value_to_string(elems[e]) \o JoinElements(elems, e + 1)
    IN CASE v.t = "NoneType" -> "<U+2205>"
         [] v.t = "bool" -> IF v.i = 1 THEN "<U+2600>" ELSE "<U+263E>"
         [] v.t = "int" ->
              CASE v.i = 0 -> "<U+2205>"
                [] v.i = 1 -> "<U+2022>"
                [] v.i = 2 -> "<U+2022><U+2022>"
                [] v.i = 3 -> "<U+2022><U+2022><U+2022>"
                [] v.i = 10 -> "<U+29BF>"
                [] OTHER -> ToString(v.i)
         [] v.t = "float" -> FloatStr(v.i, v.d)
         [] v.t = "str" -> v.s
         [] v.t = "list" -> "[" \o JoinElements(v.l, 1) \o "]"

Less(l, r) == l.i * r.d < r.i * l.d

RECURSIVE execute(_, _)
RECURSIVE EvalAll(_, _, _, _)
RECURSIVE ExecAll(_, _, _)
RECURSIVE ForIterations(_, _, _, _, _)
RECURSIVE WhileIterations(_, _)
RECURSIVE execute_function(_, _, _)

\* the values of exprs[p..], in order
EvalAll(ist, exprs, p, values) ==
    IF ist.exc # "None" \/ p > Len(exprs) THEN R(ist, values)
    ELSE LET r == execute(ist, exprs[p])
         IN EvalAll(r.st, exprs, p + 1, Append(values, r.res))

\* the statements stmts[p..] executed in order
ExecAll(ist, stmts, p) ==
    IF ist.exc # "None" \/ p > Len(stmts) THEN ist
    ELSE ExecAll(execute(ist, stmts[p]).st, stmts, p + 1)

\* the loop of visit_for_loop from the counter value `current`
ForIterations(ist, node, current, end, step) ==
    IF ist.exc # "None" THEN ist
    ELSE IF ~(IsNumber(current) /\ IsNumber(end) /\ IsNumber(step)) THEN Raise(ist, "TypeError")
    ELSE IF (Less(IntV(0), step) /\ Less(current, end)) \/ (Less(step, IntV(0)) /\ Less(end, current))
    THEN LET body == ExecAll(ist, node.body, 1)
             next == Arith("ADD", current, step).val
         IN IF body.exc # "None" THEN body
            ELSE ForIterations(set(body, body.current_env, node.counter, next),
                               node, next, end, step)
    ELSE ist

\* the loop of visit_while_loop
WhileIterations(ist, node) ==
    LET c == execute(ist, node.condition)
    IN IF c.st.exc # "None" THEN c.st
       ELSE IF _is_truthy(c.res) THEN WhileIterations(ExecAll(c.st, node.body, 1), node)
       ELSE c.st

\* the value of a call from the interpreter that execute_function left: the
\* value of the ReturnValue it caught, or None
Returned(ist) == R([ist EXCEPT !.ret = NoneV], IF ist.exc = "None" THEN ist.ret ELSE NoneV)

\* execute(node): the visit_* method of the node's class
execute(ist, node) ==
    IF ist.exc # "None" THEN R(ist, NoneV)
    ELSE CASE node.k = "Literal" -> R(ist, node.value)
           [] node.k = "Identifier" -> get(ist, ist.current_env, node.name)
           [] node.k = "BinaryOp" ->
                LET l == execute(ist, node.left)
                    r == execute(l.st, node.right)
                IN IF r.st.exc # "None" THEN R(r.st, NoneV)
                   ELSE LET a == Arith(node.operator, l.res, r.res)
                        IN IF a.exc # "None" THEN R(Raise(r.st, a.exc), NoneV)
                           ELSE R(r.st, a.val)
           [] node.k = "FunctionCall" ->
                LET args == EvalAll(ist, node.arguments, 1, <<>>)
                IN IF args.st.exc # "None" THEN R(args.st, NoneV)
                   ELSE IF node.function = None THEN R(Raise(args.st, "InterpreterError"), NoneV)
                   ELSE IF node.function.k = "FunctionDef"
                   THEN Returned(execute_function(args.st, node.function, args.res))
                   ELSE IF node.function.k = "Identifier"
                   THEN IF node.function.name \in DOMAIN args.st.functions
                        THEN Returned(execute_function(args.st,
                                                       args.st.functions[node.function.name],
                                                       args.res))
                        ELSE R(_call_builtin(args.st, node.function.name, args.res), NoneV)
                   ELSE R(Raise(args.st, "InterpreterError"), NoneV)
           [] node.k = "ExpressionStatement" -> R(execute(ist, node.expression).st, NoneV)
           [] node.k = "Assignment" ->
                LET v == execute(ist, node.value)
                IN IF v.st.exc # "None" THEN R(v.st, NoneV)
                   ELSE R(define(v.st, v.st.current_env, node.target, v.res), NoneV)
           [] node.k = "IfStatement" ->
                LET c == execute(ist, node.condition)
                IN IF c.st.exc # "None" THEN R(c.st, NoneV)
                   ELSE IF _is_truthy(c.res) THEN R(ExecAll(c.st, node.then_branch, 1), NoneV)
                   ELSE R(ExecAll(c.st, node.else_branch, 1), NoneV)
           [] node.k = "WhileLoop" -> R(WhileIterations(ist, node), NoneV)
           [] node.k = "ForLoop" ->
                LET start == execute(ist, node.start)
                    end == execute(start.st, node.end)
                    step == execute(end.st, node.step)
                IN IF step.st.exc # "None" THEN R(step.st, NoneV)
                   ELSE R(ForIterations(
                            define(step.st, step.st.current_env, node.counter, start.res),
                            node, start.res, end.res, step.res), NoneV)
           [] node.k = "OutputStatement" ->
                LET v == execute(ist, node.value)
                IN IF v.st.exc # "None" THEN R(v.st, NoneV)
                   ELSE R([v.st EXCEPT !.output_buffer = Append(@, _value_to_string(v.res))],
                          NoneV)
           [] node.k = "ReturnStatement" ->
                LET v == IF node.value # None THEN execute(ist, node.value) ELSE R(ist, NoneV)
                IN IF v.st.exc # "None" THEN R(v.st, NoneV)
                   ELSE R([v.st EXCEPT !.exc = "ReturnValue", !.ret = v.res], NoneV)

\* a variant whose new environment has the caller's as parent
execute_function_in_caller(ist, func, args) ==
    LET func_env == Len(ist.envs) + 1
        RECURSIVE Bind(_, _)
        Bind(st, p) ==
            IF st.exc # "None" \/ p > Len(func.parameters) THEN st
            ELSE IF p <= Len(args)
            THEN Bind(define(st, func_env, func.parameters[p].name, args[p]), p + 1)
            ELSE IF func.parameters[p].default_value # None
            THEN LET d == execute(st, func.parameters[p].default_value)
                 IN Bind(IF d.st.exc # "None" THEN d.st
                         ELSE define(d.st, func_env, func.parameters[p].name, d.res), p + 1)
            ELSE Raise(st, "InterpreterError")
        bound == Bind([ist EXCEPT !.envs = Append(@, Environment(ist.current_env))], 1)
        prev_env == ist.current_env
        body == ExecAll([bound EXCEPT !.current_env = func_env], func.body, 1)
    IN IF bound.exc # "None" THEN bound
       ELSE [body EXCEPT !.current_env = prev_env,
                         !.exc = IF @ = "ReturnValue" THEN "None" ELSE @]

\* a variant that restores the environment after the body but not when the
\* body raises
execute_function_no_finally(ist, func, args) ==
    LET func_env == Len(ist.envs) + 1
        RECURSIVE Bind(_, _)
        Bind(st, p) ==
            IF st.exc # "None" \/ p > Len(func.parameters) THEN st
            ELSE IF p <= Len(args)
            THEN Bind(define(st, func_env, func.parameters[p].name, args[p]), p + 1)
            ELSE IF func.parameters[p].default_value # None
            THEN LET d == execute(st, func.parameters[p].default_value)
                 IN Bind(IF d.st.exc # "None" THEN d.st
                         ELSE define(d.st, func_env, func.parameters[p].name, d.res), p + 1)
            ELSE Raise(st, "InterpreterError")
        bound == Bind([ist EXCEPT !.envs = Append(@, Environment(1))], 1)
        prev_env == ist.current_env
        body == ExecAll([bound EXCEPT !.current_env = func_env], func.body, 1)
    IN IF bound.exc # "None" THEN bound
       ELSE IF body.exc \notin {"None", "ReturnValue"} THEN body
       ELSE [body EXCEPT !.current_env = prev_env, !.exc = "None"]

\* execute_function(func, args): the body in a new environment whose parent
\* is the global one; current_env is restored on every way out
execute_function(ist, func, args) ==
    LET func_env == Len(ist.envs) + 1
        RECURSIVE Bind(_, _)
        Bind(st, p) ==
            IF st.exc # "None" \/ p > Len(func.parameters) THEN st
            ELSE IF p <= Len(args)
            THEN Bind(define(st, func_env, func.parameters[p].name, args[p]), p + 1)
            ELSE IF func.parameters[p].default_value # None
            THEN LET d == execute(st, func.parameters[p].default_value)
                 IN Bind(IF d.st.exc # "None" THEN d.st
                         ELSE define(d.st, func_env, func.parameters[p].name, d.res), p + 1)
            ELSE Raise(st, "InterpreterError")
        bound == Bind([ist EXCEPT !.envs = Append(@, Environment(1))], 1)
        prev_env == ist.current_env
        body == ExecAll([bound EXCEPT !.current_env = func_env], func.body, 1)
    IN IF bound.exc # "None" THEN bound
       ELSE [body EXCEPT !.current_env = prev_env,
                         !.exc = IF @ = "ReturnValue" THEN "None" ELSE @]

\* self.functions[id(func)] = func for funcs[p..]: the key of a function
\* object is named after the node it was resolved from
FunctionId(func) == "id_" \o ToString(func.origin)

RECURSIVE RegisterAll(_, _, _)
RegisterAll(ist, funcs, p) ==
    IF p > Len(funcs) THEN ist
    ELSE RegisterAll(register(ist, FunctionId(funcs[p]), funcs[p]), funcs, p + 1)

\* a variant that looks for the outer circle after the program has run
interpret_then_check(ist0, prog) ==
    LET ist == [ist0 EXCEPT !.output_buffer = <<>>, !.exc = "None", !.ret = NoneV]
        stored == RegisterAll(ist, prog.functions, 1)
        named == IF prog.main_entry # None
                 THEN register(stored, "main", prog.main_entry) ELSE stored
        globals == ExecAll(named, prog.globals, 1)
        ran == IF globals.exc # "None" \/ prog.main_entry = None THEN globals
               ELSE Returned(execute_function(globals, prog.main_entry, <<>>)).st
    IN IF ran.exc = "None" /\ ~prog.has_outer_circle THEN Raise(ran, "InterpreterError")
       ELSE ran

\* interpret(program): [ist, output]; output is the returned string, as the
\* sequence of the lines joined by "\n" (it is returned only without exception)
interpret(ist0, prog) ==
    LET ist == [ist0 EXCEPT !.output_buffer = <<>>, !.exc = "None", !.ret = NoneV]
    IN IF ~prog.has_outer_circle THEN Raise(ist, "InterpreterError")
       ELSE LET stored == RegisterAll(ist, prog.functions, 1)
                named == IF prog.main_entry # None
                         THEN register(stored, "main", prog.main_entry) ELSE stored
                globals == ExecAll(named, prog.globals, 1)
            IN IF globals.exc # "None" \/ prog.main_entry = None THEN globals
               ELSE Returned(execute_function(globals, prog.main_entry, <<>>)).st

\* '\n'.join(lines)
RECURSIVE JoinLines(_, _)
JoinLines(lines, p) ==
    IF p > Len(lines) THEN ""
    ELSE (IF p > 1 THEN "\n" ELSE "") \o lines[p] \o JoinLines(lines, p + 1)

(***************************************************************************)
(* The drawings handed to parse.  A drawing is an optional outer circle    *)
(* followed by at most MaxInner symbols of one palette, laid out so that   *)
(* no two symbols share a position, with at most MaxConns explicit         *)
(* connections between the inner symbols.                                  *)
(***************************************************************************)
Shape(ty, pat) == [type |-> ty, pattern |-> pat]

Palettes ==
    { {Shape("DOUBLE_CIRCLE", ""), Shape("CIRCLE", ""), Shape("STAR", "")},
      {Shape("DOUBLE_CIRCLE", ""), Shape("SQUARE", "dot"), Shape("STAR", "")},
      {Shape("PENTAGON", ""), Shape("SQUARE", "triple_dot"), Shape("STAR", "")},
      {Shape("TRIANGLE", ""), Shape("SQUARE", "cross"), Shape("STAR", "")},
      {Shape("CONVERGENCE", ""), Shape("SQUARE", "dot"), Shape("STAR", "")},
      {Shape("DIVERGENCE", ""), Shape("SQUARE", "double_dot"), Shape("STAR", "")},
      {Shape("AMPLIFICATION", ""), Shape("SQUARE", "grid"), Shape("STAR", "")},
      {Shape("DISTRIBUTION", ""), Shape("SQUARE", "dot"), Shape("STAR", "")},
      {Shape("CONVERGENCE", ""), Shape("SQUARE", "triple_line"), Shape("STAR", "")},
      {Shape("CONVERGENCE", ""), Shape("DISTRIBUTION", ""), Shape("STAR", "")} }

\* the position of the k-th inner symbol in each layout: a column 100 apart
\* (within the thresholds of the inference), a column 200 apart (beyond the
\* distance threshold), a row 200 apart (beyond both)
Layouts == {"column", "wide_column", "row"}

Position(layout, k) ==
    CASE layout = "column" -> <<200, 100 * k>>
      [] layout = "wide_column" -> <<200, 200 * k>>
      [] layout = "row" -> <<200 * k, 100>>

OuterCircle == Symbol("OUTER_CIRCLE", <<250, 250>>, "")

Drawing(outer, shapes, layout) ==
    (IF outer THEN <<OuterCircle>> ELSE <<>>)
        \o [k \in 1..Len(shapes) |-> Symbol(shapes[k].type, Position(layout, k), shapes[k].pattern)]

SeqsUpTo(S, n) == UNION {[1..m -> S] : m \in 0..n}

\* the connection lists over the inner symbols of a drawing
ConnectionLists(inner) ==
    SeqsUpTo({Connection(inner[a], inner[b]) : a, b \in 1..Len(inner)}, MaxConns)

(***************************************************************************)
(* The compile pipeline: parse, then interpret (GrimoireCompiler).         *)
(***************************************************************************)
Init ==
    /\ symbols = <<>>
    /\ connections = <<>>
    /\ symbol_graph = <<>>
    /\ program = None
    /\ parse_exc = "None"
    /\ interpreter = GrimoireInterpreter
    /\ output = ""
    /\ pc = "start"
    /\ block = <<>>
    /\ futures = <<>>
    /\ results = <<>>

\* parser.parse(syms, conns)
Parse(syms, conns) ==
    /\ pc = "start"
    /\ \E r \in {parse(syms, conns)} :
          /\ symbols' = syms
          /\ connections' = conns
          /\ symbol_graph' = r.g
          /\ program' = r.program
          /\ parse_exc' = r.exc
          /\ pc' = IF r.exc = "None" THEN "parsed" ELSE "parse_raised"
    /\ UNCHANGED <<interpreter, output, block, futures, results>>

\* interpreter.interpret(program)
Interpret ==
    /\ pc = "parsed"
    /\ \E r \in {interpret(interpreter, program)} :
          /\ interpreter' = r
          /\ output' = IF r.exc = "None" THEN JoinLines(r.output_buffer, 1) ELSE output
          /\ pc' = IF r.exc = "None" THEN "done" ELSE "run_raised"
    /\ UNCHANGED <<symbols, connections, symbol_graph, program, parse_exc, block, futures,
                   results>>

ParseSome ==
    /\ pc = "start"
    /\ \E palette \in Palettes, outer \in BOOLEAN, layout \in Layouts :
        \E shapes \in SeqsUpTo(palette, MaxInner) :
            \E conns \in ConnectionLists(Drawing(FALSE, shapes, layout)) :
                /\ conns # <<>> => layout = "column"
                /\ Parse(Drawing(outer, shapes, layout), conns)

Next == ParseSome \/ Interpret

Spec == Init /\ [][Next]_vars

(***************************************************************************)
(* Expressions drawn with their wires: two squares into an operator, each  *)
(* operator into the next, the last into a star (with no operator the      *)
(* squares go into the star), all inside the outer circle.                 *)
(***************************************************************************)
\* the operators of the longest chain
MaxOperators == 2

OperandPatterns == {"dot", "double_dot", "triple_dot", "empty"}

ExpressionShapes(p1, p2, ops) ==
    <<Shape("SQUARE", p1), Shape("SQUARE", p2)>>
        \o [k \in 1..Len(ops) |-> Shape(ops[k], "")] \o <<Shape("STAR", "")>>

ExpressionConnections(inner) ==
    <<Connection(inner[1], inner[3]), Connection(inner[2], inner[3])>>
        \o [k \in 1..(Len(inner) - 3) |-> Connection(inner[k + 2], inner[k + 3])]

ExpressionDrawing(p1, p2, ops) == Drawing(TRUE, ExpressionShapes(p1, p2, ops), "column")

ExpressionWires(p1, p2, ops) ==
    ExpressionConnections(Drawing(FALSE, ExpressionShapes(p1, p2, ops), "column"))

ParseExpression ==
    \E p1 \in OperandPatterns, p2 \in OperandPatterns :
        \E ops \in SeqsUpTo(OperatorTypes, MaxOperators) :
            Parse(ExpressionDrawing(p1, p2, ops), ExpressionWires(p1, p2, ops))

NextExpression == ParseExpression \/ Interpret

SpecExpression == Init /\ [][NextExpression]_vars

(***************************************************************************)
(* _parse_statement on its own, called on a node of any kind that is       *)
(* already visited or not, alone or below a square that is its parent.     *)
(***************************************************************************)
SymbolTypes ==
    {"OUTER_CIRCLE", "CIRCLE", "DOUBLE_CIRCLE", "SQUARE", "TRIANGLE", "PENTAGON", "HEXAGON",
     "STAR"} \cup OperatorTypes

\* SymbolNode(symbol) with node.visited = visited, and SymbolNode of the
\* parent square when there is one
InitVisited ==
    /\ \E ty \in SymbolTypes, pattern \in OperandPatterns, square \in OperandPatterns :
          symbols = <<Symbol(ty, Position("column", 2), pattern),
                      Symbol("SQUARE", Position("column", 1), square)>>
    /\ \E wired \in BOOLEAN :
          connections = IF wired THEN <<Connection(symbols[2], symbols[1])>> ELSE <<>>
    /\ \E visited \in BOOLEAN :
          symbol_graph =
              [ConnectAll(symbols, connections,
                          [k \in 1..Len(symbols) |-> SymbolNode(symbols[k])], 1)
                   EXCEPT ![1].visited = visited]
    /\ program = None
    /\ parse_exc = "None"
    /\ interpreter = GrimoireInterpreter
    /\ output = ""
    /\ pc = "start"
    /\ block = <<>>
    /\ futures = <<>>
    /\ results = <<>>

\* stmt = parser._parse_statement(node); `program` takes the statement
ParseStatement ==
    /\ pc = "start"
    /\ \E r \in {_parse_statement([g |-> symbol_graph, exc |-> "None", stale |-> <<>>], 1, 0)} :
          /\ symbol_graph' = r.st.g
          /\ parse_exc' = r.st.exc
          /\ program' = r.res
    /\ pc' = "parsed"
    /\ UNCHANGED <<symbols, connections, interpreter, output, block, futures, results>>

SpecVisited == InitVisited /\ [][ParseStatement]_vars

(***************************************************************************)
(* Connection lists with a connection that has an endpoint outside the     *)
(* input: the expression drawings, wired or not, with one such connection  *)
(* put anywhere in the list.  The missing endpoint differs from a symbol   *)
(* of the input in kind, in position or in size.                           *)
(***************************************************************************)
Ghosts(sym) ==
    {[sym EXCEPT !.type = "PENTAGON"], [sym EXCEPT !.position = <<400, 400>>],
     [sym EXCEPT !.size = 100]}

\* the connections with `sym` at one end and no symbol of the input at the
\* other, and with no symbol of the input at either end
Dangling(sym) ==
    {Connection(ghost, sym) : ghost \in Ghosts(sym)}
        \cup {Connection(sym, ghost) : ghost \in Ghosts(sym)}
        \cup {Connection(ghost, ghost) : ghost \in Ghosts(sym)}

InsertAt(seq, k, e) == SubSeq(seq, 1, k) \o <<e>> \o SubSeq(seq, k + 1, Len(seq))

ParseDangling ==
    \E wired \in BOOLEAN :
        \E ops \in SeqsUpTo(OperatorTypes, MaxOperators) :
            \E syms \in {ExpressionDrawing("dot", "double_dot", ops)} :
                \E wires \in {IF wired THEN ExpressionWires("dot", "double_dot", ops)
                                       ELSE <<>>} :
                    \E k \in 0..Len(wires), s \in 2..Len(syms) :
                        \E conn \in Dangling(syms[s]) :
                            Parse(syms, InsertAt(wires, k, conn))

NextDangling == ParseDangling \/ Interpret

SpecDangling == Init /\ [][NextDangling]_vars

(***************************************************************************)
(* _parse_expression on its own, called on a circle that is visited or     *)
(* not, with no, one or two squares connected into it, each visited or not.*)
(***************************************************************************)
CallDrawings ==
    {<<Symbol("CIRCLE", Position("column", 3), "")>>
        \o [k \in 1..Len(squares) |-> Symbol("SQUARE", Position("column", k), squares[k])] :
            squares \in SeqsUpTo(OperandPatterns, 2)}

InitCall ==
    /\ symbols \in CallDrawings
    /\ connections = [k \in 1..(Len(symbols) - 1) |-> Connection(symbols[k + 1], symbols[1])]
    /\ \E visited \in [1..Len(symbols) -> BOOLEAN] :
          symbol_graph =
              [k \in 1..Len(symbols) |->
                  [ConnectAll(symbols, connections,
                              [n \in 1..Len(symbols) |-> SymbolNode(symbols[n])], 1)[k]
                       EXCEPT !.visited = visited[k]]]
    /\ program = None
    /\ parse_exc = "None"
    /\ interpreter = GrimoireInterpreter
    /\ output = ""
    /\ pc = "start"
    /\ block = <<>>
    /\ futures = <<>>
    /\ results = <<>>

\* expr = parser._parse_expression(node); `program` takes the expression
ParseCall ==
    /\ pc = "start"
    /\ \E r \in {_parse_expression([g |-> symbol_graph, exc |-> "None", stale |-> <<>>], 1, 0)} :
          /\ symbol_graph' = r.st.g
          /\ parse_exc' = r.st.exc
          /\ program' = r.res
    /\ pc' = "parsed"
    /\ UNCHANGED <<symbols, connections, interpreter, output, block, futures, results>>

SpecCall == InitCall /\ [][ParseCall]_vars

(***************************************************************************)
(* An operator with any number of operands: squares and operators wired    *)
(* into one operator, and the operator into a star, inside the outer       *)
(* circle.                                                                 *)
(***************************************************************************)
\* the operands of the operator with the most
MaxOperands == 3

OperandShapes ==
    {Shape("SQUARE", "dot"), Shape("SQUARE", "double_dot"), Shape("SQUARE", "triple_line"),
     Shape("AMPLIFICATION", "")}

OperandWires(inner) ==
    [k \in 1..(Len(inner) - 1) |->
        IF k < Len(inner) - 1 THEN Connection(inner[k], inner[Len(inner) - 1])
        ELSE Connection(inner[Len(inner) - 1], inner[Len(inner)])]

ParseOperands ==
    \E operator \in OperatorTypes, operands \in SeqsUpTo(OperandShapes, MaxOperands) :
        \E shapes \in {operands \o <<Shape(operator, ""), Shape("STAR", "")>>} :
            Parse(Drawing(TRUE, shapes, "column"), OperandWires(Drawing(FALSE, shapes, "column")))

NextOperands == ParseOperands \/ Interpret

SpecOperands == Init /\ [][NextOperands]_vars

(***************************************************************************)
(* Connection inference on its own: at most MaxPlaced symbols, each of any *)
(* of four kinds and at any place of a grid, two places being nearer than  *)
(* 150 only when they are neighbours in a column.  Symbols may share a     *)
(* place.                                                                  *)
(***************************************************************************)
MaxPlaced == 4

Places == {<<x, y>> : x \in {100, 300}, y \in {100, 200, 300}}

PlacedKinds == {"DOUBLE_CIRCLE", "SQUARE", "CONVERGENCE", "STAR"}

Placements ==
    SeqsUpTo({Symbol(ty, pos, IF ty = "SQUARE" THEN "dot" ELSE "") :
                 ty \in PlacedKinds, pos \in Places}, MaxPlaced)

\* self.symbols = syms; self.connections = []; self._build_symbol_graph()
InferPlaced ==
    /\ pc = "start"
    /\ \E syms \in Placements :
          /\ symbols' = syms
          /\ symbol_graph' = _build_symbol_graph(syms, <<>>)
    /\ pc' = "built"
    /\ UNCHANGED <<connections, program, parse_exc, interpreter, output, block, futures,
                   results>>

SpecInference == Init /\ [][InferPlaced]_vars

(***************************************************************************)
(* Literal inference on its own: one symbol of any kind, at any place of a *)
(* column, whose "pattern" property is one of the patterns the parser      *)
(* names, absent ("") or a string it does not name.                        *)
(***************************************************************************)
Patterns ==
    {"dot", "double_dot", "triple_dot", "multiple_dots", "empty", "triple_line", "lines",
     "single_line", "double_line", "cross", "half_circle", "grid", "filled",
     "", "unknown", "Dot", "dots"}

InitLiteral ==
    /\ \E ty \in {"SQUARE", "CIRCLE", "TRIANGLE", "STAR"}, k \in 1..MaxInner,
          pattern \in Patterns :
            symbols = <<Symbol(ty, Position("column", k), pattern)>>
    /\ connections = <<>>
    /\ symbol_graph = <<>>
    /\ program = None
    /\ parse_exc = "None"
    /\ interpreter = GrimoireInterpreter
    /\ output = ""
    /\ pc = "start"
    /\ block = <<>>
    /\ futures = <<>>
    /\ results = <<>>

\* _parse_literal_from_properties(SymbolNode(symbol)); `program` takes the
\* node returned
ParseLiteral ==
    /\ pc = "start"
    /\ symbol_graph' = <<SymbolNode(symbols[1])>>
    /\ program' = _parse_literal_from_properties(symbol_graph'[1].symbol)
    /\ pc' = "parsed"
    /\ UNCHANGED <<symbols, connections, parse_exc, interpreter, output, block, futures,
                   results>>

SpecLiteral == InitLiteral /\ [][ParseLiteral]_vars

(***************************************************************************)
(* Statements executed inside a function.  The interpreter is in the body  *)
(* of a call: beside the global environment there is the environment of    *)
(* the call (its parent is the global one), each binding x or not, and the *)
(* registry names one function f.  block[1] is the statement executed, in  *)
(* the global environment or in the one of the call.                       *)
(***************************************************************************)
Bindings(values) == {<<>>} \cup {[n \in {"x"} |-> v] : v \in values}

\* the bodies of f: it prints x, or assigns x and prints it
ScopeBodies ==
    { <<OutputStatement(Identifier("x"), 0)>>,
      <<Assignment("x", Literal(IntV(7), "INTEGER"), 0), OutputStatement(Identifier("x"), 0)>> }

CallOf(name) == ExpressionStatement(FunctionCall(Identifier(name), <<>>), 0)

ScopeStatements ==
    { Assignment("x", Literal(IntV(5), "INTEGER"), 0),
      Assignment("y", Literal(IntV(5), "INTEGER"), 0),
      Assignment("x", Identifier("x"), 0),
      Assignment("x", Identifier("y"), 0),
      OutputStatement(Identifier("x"), 0),
      CallOf("f"),
      CallOf("g") }

InitScopes ==
    /\ symbols = <<>>
    /\ connections = <<>>
    /\ symbol_graph = <<>>
    /\ program = None
    /\ parse_exc = "None"
    /\ \E global \in Bindings({IntV(0), IntV(1)}), local \in Bindings({IntV(2), IntV(3)}),
          current \in 1..2, body \in ScopeBodies :
            interpreter =
                [GrimoireInterpreter EXCEPT
                    !.envs = <<[values |-> global, parent |-> 0],
                               [values |-> local, parent |-> 1]>>,
                    !.current_env = current,
                    !.functions = [n \in {"f"} |-> FunctionDef(<<>>, body, FALSE, 0)]]
    /\ output = ""
    /\ pc = "start"
    /\ \E stmt \in ScopeStatements : block = <<(<<stmt>>)>>
    /\ futures = <<>>
    /\ results = <<>>

\* interpreter.execute(stmt)
ExecuteStatement ==
    /\ pc = "start"
    /\ \E r \in {execute(interpreter, block[1][1]).st} :
          /\ interpreter' = r
          /\ pc' = IF r.exc = "None" THEN "done" ELSE "run_raised"
    /\ UNCHANGED <<symbols, connections, symbol_graph, program, parse_exc, output, block,
                   futures, results>>

SpecScopes == InitScopes /\ [][ExecuteStatement]_vars

(***************************************************************************)
(* Programs handed to interpret as they are: with or without the outer     *)
(* circle, an entry, a function and a global statement, on an interpreter  *)
(* that is new or has run a program before.                                *)
(***************************************************************************)
Text(s) == Literal(StrV(s), "STRING")

Programs ==
    { [Program(main_entry, functions, globals) EXCEPT !.has_outer_circle = outer] :
        outer \in BOOLEAN,
        main_entry \in {None, FunctionDef(<<>>, <<OutputStatement(Text("entry"), 0)>>, TRUE, 0)},
        functions \in {<<>>, <<FunctionDef(<<>>, <<OutputStatement(Text("f"), 0)>>, FALSE, 1)>>},
        globals \in {<<>>, <<OutputStatement(Text("global"), 0)>>,
                     <<Assignment("x", Literal(IntV(5), "INTEGER"), 0)>>} }

\* the interpreter after the run of `prog`
UsedInterpreter(prog) == interpret(GrimoireInterpreter, prog)

InitPrograms ==
    /\ symbols = <<>>
    /\ connections = <<>>
    /\ symbol_graph = <<>>
    /\ program \in Programs
    /\ parse_exc = "None"
    /\ interpreter \in {GrimoireInterpreter} \cup
            {UsedInterpreter(prog) : prog \in {p \in Programs : p.has_outer_circle}}
    /\ output = ""
    /\ pc = "parsed"
    /\ block = <<>>
    /\ futures = <<>>
    /\ results = <<>>

SpecPrograms == InitPrograms /\ [][Interpret]_vars

(***************************************************************************)
(* A compiler that is used again.  GrimoireCompiler makes one parser and   *)
(* one interpreter and hands every image to them: the parser's dictionary  *)
(* and the interpreter's environments are what the run before left.  The   *)
(* drawings are the first symbols of one column (a square, an operator fed *)
(* by it, a star fed by the operator, a second square feeding the          *)
(* operator) with some of its wires, or none and the inferred ones.        *)
(***************************************************************************)
\* the environments the interpreter's heap may hold when a run starts
MaxEnvs == 3

ReuseShapes ==
    <<Shape("SQUARE", "dot"), Shape("CONVERGENCE", ""), Shape("STAR", ""),
      Shape("SQUARE", "double_dot")>>

\* the wires of the column, as pairs of places in it
ReuseWires == <<(<<4, 2>>), (<<1, 2>>), (<<2, 3>>)>>

\* the wires among `wires` (kept in order) whose two ends are among the
\* first k symbols
ReuseConnections(k, wires) ==
    LET inner == Drawing(FALSE, SubSeq(ReuseShapes, 1, k), "column")
        kept == SelectSeq(ReuseWires, LAMBDA w : w \in wires)
    IN [c \in 1..Len(kept) |-> Connection(inner[kept[c][1]], inner[kept[c][2]])]

\* the entries that the dictionary `graph`, left by a parse of n symbols,
\* keeps when m symbols are parsed next: those of the keys beyond m
StaleEntries(graph, n, m) ==
    [k \in 1..(Len(graph) - m) |->
        IF m + k <= n THEN [era |-> SubSeq(graph, 1, n), index |-> m + k]
        ELSE graph[m + k]]

\* parser.parse(syms, conns) by a compiler, new or used
Reparse(syms, conns) ==
    /\ pc \in {"start", "parse_raised", "run_raised", "done"}
    /\ Len(interpreter.envs) < MaxEnvs
    /\ \E stale \in {StaleEntries(symbol_graph, Len(symbols), Len(syms))} :
        \E r \in {parse_on(stale, syms, conns)} :
          /\ symbols' = syms
          /\ connections' = conns
          /\ symbol_graph' = r.g \o stale
          /\ program' = r.program
          /\ parse_exc' = r.exc
          /\ pc' = IF r.exc = "None" THEN "parsed" ELSE "parse_raised"
    /\ UNCHANGED <<interpreter, output, block, futures, results>>

ReparseSome ==
    \E outer \in BOOLEAN, k \in 0..Len(ReuseShapes) :
        \E wires \in SUBSET {ReuseWires[w] : w \in 1..Len(ReuseWires)} :
            /\ \A w \in wires : w[1] <= k /\ w[2] <= k
            /\ Reparse(Drawing(outer, SubSeq(ReuseShapes, 1, k), "column"),
                       ReuseConnections(k, wires))

NextReuse == ReparseSome \/ Interpret

SpecReuse == Init /\ [][NextReuse]_vars

(***************************************************************************)
(* visit_parallel_block, step by step.  The parent submits one task per    *)
(* branch to a ThreadPoolExecutor of len(branches) workers, takes the      *)
(* futures as they complete, leaves the `with` block (shutdown(wait=True): *)
(* it waits for every worker) and merges the results.  A worker runs       *)
(* _execute_branch: a branch interpreter with its own output_buffer and    *)
(* its own current_env, a new Environment whose parent is the shared       *)
(* global one.  The workers interleave statement by statement.             *)
(***************************************************************************)
Future == [state |-> "new", ip |-> 1, current_env |-> 0, output_buffer |-> <<>>,
           exception |-> "None", yielded |-> FALSE]

\* the line that statement s of branch b emits
LineName(b, s) == "b" \o ToString(b) \o "s" \o ToString(s)

\* a statement that raises InterpreterError: 1 / 0
Failing ==
    ExpressionStatement(
        BinaryOp(Literal(IntV(1), "INTEGER"), "DIVIDE", Literal(IntV(0), "INTEGER"), 2), 0)

\* the value that branch b assigns to the variable x
Written(b) == IntV(20 + b)

\* the branches of a block from their shapes: statement s of branch b emits
\* its own line ("out"), raises ("fail"), assigns x ("assign") or emits the
\* value of x ("read")
BlockOf(shapes) ==
    [b \in 1..Len(shapes) |->
        [s \in 1..Len(shapes[b]) |->
            CASE shapes[b][s] = "out" ->
                    OutputStatement(Literal(StrV(LineName(b, s)), "STRING"), 0)
              [] shapes[b][s] = "assign" ->
                    Assignment("x", Literal(Written(b), "INTEGER"), 0)
              [] shapes[b][s] = "read" -> OutputStatement(Identifier("x"), 0)
              [] OTHER -> Failing]]

BranchShapes == SeqsUpTo({"out", "fail"}, MaxBranchLen) \ {<<>>}

Blocks == {BlockOf(shapes) : shapes \in SeqsUpTo(BranchShapes, MaxBranches)}

\* the interpreter calls visit_parallel_block(node), some output already made
InitParallel ==
    /\ symbols = <<>>
    /\ connections = <<>>
    /\ symbol_graph = <<>>
    /\ program = None
    /\ parse_exc = "None"
    /\ \E before \in {<<>>, <<"before">>} :
            interpreter = [GrimoireInterpreter EXCEPT !.output_buffer = before]
    /\ output = ""
    /\ pc = "block_start"
    /\ block \in Blocks
    /\ futures = [b \in 1..Len(block) |-> Future]
    /\ results = <<>>

\* the branches that assign and read the variable x
AssigningShapes == SeqsUpTo({"assign", "read"}, MaxBranchLen) \ {<<>>}

AssigningBlocks == {BlockOf(shapes) : shapes \in SeqsUpTo(AssigningShapes, MaxBranches)}

\* visit_parallel_block(node) is called on a block whose branches assign and
\* read x; the global environment binds x to 0 or does not bind it
InitAssigning ==
    /\ symbols = <<>>
    /\ connections = <<>>
    /\ symbol_graph = <<>>
    /\ program = None
    /\ parse_exc = "None"
    /\ \E bound \in BOOLEAN :
          interpreter = IF bound THEN define(GrimoireInterpreter, 1, "x", IntV(0))
                        ELSE GrimoireInterpreter
    /\ output = ""
    /\ pc = "block_start"
    /\ block \in AssigningBlocks
    /\ futures = [b \in 1..Len(block) |-> Future]
    /\ results = <<>>

\* results = []; ThreadPoolExecutor(max_workers=len(node.branches)), which
\* raises ValueError for max_workers = 0
EnterBlock ==
    /\ pc = "block_start"
    /\ results' = <<>>
    /\ IF Len(block) = 0
       THEN /\ interpreter' = Raise(interpreter, "ValueError")
            /\ pc' = "block_raised"
       ELSE /\ pc' = "submitting"
            /\ UNCHANGED interpreter
    /\ UNCHANGED <<symbols, connections, symbol_graph, program, parse_exc, output, block,
                   futures>>

\* executor.submit(self._execute_branch, branch), for the next branch
Submit(b) ==
    /\ pc = "submitting"
    /\ futures[b].state = "new"
    /\ \A a \in 1..(b - 1) : futures[a].state # "new"
    /\ futures' = [futures EXCEPT ![b].state = "pending"]
    /\ pc' = IF b = Len(block) THEN "waiting" ELSE "submitting"
    /\ UNCHANGED <<symbols, connections, symbol_graph, program, parse_exc, interpreter,
                   output, block, results>>

\* the branch run in the global environment itself
StartBranch_in_global(b) ==
    /\ futures[b].state = "pending"
    /\ interpreter' = [interpreter EXCEPT !.envs = Append(@, Environment(1))]
    /\ futures' = [futures EXCEPT ![b].state = "running", ![b].current_env = 1]
    /\ UNCHANGED <<symbols, connections, symbol_graph, program, parse_exc, output, pc,
                   block, results>>

\* a worker takes the task: the prologue of _execute_branch
StartBranch(b) ==
    /\ futures[b].state = "pending"
    /\ interpreter' = [interpreter EXCEPT !.envs = Append(@, Environment(1))]
    /\ futures' = [futures EXCEPT ![b].state = "running",
                                  ![b].current_env = Len(interpreter.envs) + 1]
    /\ UNCHANGED <<symbols, connections, symbol_graph, program, parse_exc, output, pc,
                   block, results>>

\* the branch writing into the buffer of the parent
StepBranch_parent_buffer(b) ==
    /\ futures[b].state = "running"
    /\ futures[b].ip <= Len(block[b])
    /\ \E r \in {execute([envs |-> interpreter.envs,
                          current_env |-> futures[b].current_env,
                          output_buffer |-> interpreter.output_buffer,
                          exc |-> "None",
                          functions |-> interpreter.functions,
                          ret |-> NoneV], block[b][futures[b].ip]).st} :
          /\ interpreter' = [interpreter EXCEPT !.envs = r.envs,
                                                !.output_buffer = r.output_buffer]
          /\ futures' = [futures EXCEPT
                            ![b].ip = @ + 1,
                            ![b].exception = r.exc,
                            ![b].state = IF r.exc # "None" THEN "finished" ELSE @]
    /\ UNCHANGED <<symbols, connections, symbol_graph, program, parse_exc, output, pc,
                   block, results>>

\* branch_interpreter.execute(stmt) for the next statement of the branch; an
\* exception ends the task and is stored in the future
StepBranch(b) ==
    /\ futures[b].state = "running"
    /\ futures[b].ip <= Len(block[b])
    /\ \E r \in {execute([envs |-> interpreter.envs,
                          current_env |-> futures[b].current_env,
                          output_buffer |-> futures[b].output_buffer,
                          exc |-> "None",
                          functions |-> interpreter.functions,
                          ret |-> NoneV], block[b][futures[b].ip]).st} :
          /\ interpreter' = [interpreter EXCEPT !.envs = r.envs]
          /\ futures' = [futures EXCEPT
                            ![b].output_buffer = r.output_buffer,
                            ![b].ip = @ + 1,
                            ![b].exception = r.exc,
                            ![b].state = IF r.exc # "None" THEN "finished" ELSE @]
    /\ UNCHANGED <<symbols, connections, symbol_graph, program, parse_exc, output, pc,
                   block, results>>

\* return branch_interpreter.output_buffer: the future gets its result
FinishBranch(b) ==
    /\ futures[b].state = "running"
    /\ futures[b].ip > Len(block[b])
    /\ futures' = [futures EXCEPT ![b].state = "finished"]
    /\ UNCHANGED <<symbols, connections, symbol_graph, program, parse_exc, interpreter,
                   output, pc, block, results>>

\* one turn of `for future in as_completed(futures)`: a finished future not
\* yet yielded; its result is kept, its exception raised as InterpreterError
Collect(b) ==
    /\ pc = "waiting"
    /\ futures[b].state = "finished"
    /\ ~futures[b].yielded
    /\ futures' = [futures EXCEPT ![b].yielded = TRUE]
    /\ IF futures[b].exception # "None"
       THEN /\ pc' = "join_raising"
            /\ UNCHANGED results
       ELSE /\ results' = Append(results, futures[b].output_buffer)
            /\ pc' = IF \A a \in 1..Len(block) : a = b \/ futures[a].yielded
                     THEN "join" ELSE "waiting"
    /\ UNCHANGED <<symbols, connections, symbol_graph, program, parse_exc, interpreter,
                   output, block>>

\* the merge as an assignment: the buffer becomes the last result
Extend_assign(buffer, rs, p) == IF rs = <<>> THEN buffer ELSE rs[Len(rs)]

\* results[p..], each appended to the buffer
RECURSIVE Extend(_, _, _)
Extend(buffer, rs, p) ==
    IF p > Len(rs) THEN buffer ELSE Extend(buffer \o rs[p], rs, p + 1)

\* the end of the block as shutdown(wait=False): the parent does not wait
Join_no_wait ==
    /\ pc \in {"join", "join_raising"}
    /\ IF pc = "join_raising"
       THEN /\ interpreter' = Raise(interpreter, "InterpreterError")
            /\ pc' = "block_raised"
       ELSE /\ interpreter' = [interpreter EXCEPT
                                  !.output_buffer = Extend(@, results, 1)]
            /\ pc' = "block_done"
    /\ UNCHANGED <<symbols, connections, symbol_graph, program, parse_exc, output, block,
                   futures, results>>

\* the end of the `with` block, executor.shutdown(wait=True), returns once
\* every worker is done; then the pending InterpreterError propagates, or
\* the results are merged into the parent's buffer
Join ==
    /\ pc \in {"join", "join_raising"}
    /\ \A b \in 1..Len(block) : futures[b].state = "finished"
    /\ IF pc = "join_raising"
       THEN /\ interpreter' = Raise(interpreter, "InterpreterError")
            /\ pc' = "block_raised"
       ELSE /\ interpreter' = [interpreter EXCEPT
                                  !.output_buffer = Extend(@, results, 1)]
            /\ pc' = "block_done"
    /\ UNCHANGED <<symbols, connections, symbol_graph, program, parse_exc, output, block,
                   futures, results>>

Parent == EnterBlock \/ (\E b \in 1..Len(block) : Submit(b) \/ Collect(b)) \/ Join

Worker(b) == StartBranch(b) \/ StepBranch(b) \/ FinishBranch(b)

NextParallel == Parent \/ \E b \in 1..Len(block) : Worker(b)

SpecParallel == InitParallel /\ [][NextParallel]_vars

SpecAssigning == InitAssigning /\ [][NextParallel]_vars

(***************************************************************************)
(* Calls inside calls.  program.functions holds a chain of at most         *)
(* MaxDepth functions, registered as f1, f2, ...: each but the last        *)
(* assigns a value to x, calls the next and prints x; the last one ends,   *)
(* returns, raises, lacks its argument or takes the default of its         *)
(* parameter.  execute_function is called on f1, from the global           *)
(* environment or from another one.                                        *)
(***************************************************************************)
MaxDepth == 3

Ways == {"end", "return", "error", "missing", "default"}

FunctionName(level) == "f" \o ToString(level)

\* the last function of a chain
LastFunction(way) ==
    CASE way = "end" -> FunctionDef(<<>>, <<OutputStatement(Text("end"), 0)>>, FALSE, 0)
      [] way = "return" ->
            FunctionDef(<<>>, <<ReturnStatement(Literal(IntV(1), "INTEGER"), 0),
                                OutputStatement(Text("after"), 0)>>, FALSE, 0)
      [] way = "error" -> FunctionDef(<<>>, <<Failing>>, FALSE, 0)
      [] way = "missing" ->
            FunctionDef(<<Parameter("p", "INTEGER")>>, <<OutputStatement(Identifier("p"), 0)>>,
                        FALSE, 0)
      [] way = "default" ->
            FunctionDef(<<[Parameter("p", "INTEGER") EXCEPT
                              !.default_value = Literal(IntV(20), "INTEGER")]>>,
                        <<OutputStatement(Identifier("p"), 0)>>, FALSE, 0)

\* the value that the function of a level assigns to its x
Assigned(level) == IntV(10 + level)

\* the function of a level that calls the next level
CallingFunction(level) ==
    FunctionDef(<<>>, <<Assignment("x", Literal(Assigned(level), "INTEGER"), 0),
                        CallOf(FunctionName(level + 1)),
                        OutputStatement(Identifier("x"), 0)>>, FALSE, 0)

Chain(depth, way) ==
    [level \in 1..depth |-> IF level < depth THEN CallingFunction(level) ELSE LastFunction(way)]

InitCalls ==
    /\ symbols = <<>>
    /\ connections = <<>>
    /\ symbol_graph = <<>>
    /\ \E depth \in 1..MaxDepth, way \in Ways :
          program = Program(None, Chain(depth, way), <<>>)
    /\ parse_exc = "None"
    /\ \E global \in Bindings({IntV(0), IntV(1)}), local \in Bindings({IntV(2), IntV(3)}),
          current \in 1..2 :
            interpreter =
                [GrimoireInterpreter EXCEPT
                    !.envs = <<[values |-> global, parent |-> 0],
                               [values |-> local, parent |-> 1]>>,
                    !.current_env = current,
                    !.functions = [name \in {FunctionName(level) :
                                                level \in 1..Len(program.functions)} |->
                                      program.functions[
                                          CHOOSE level \in 1..Len(program.functions) :
                                              FunctionName(level) = name]]]
    /\ output = ""
    /\ pc = "start"
    /\ block = <<>>
    /\ futures = <<>>
    /\ results = <<>>

\* interpreter.execute_function(f1, [])
CallFunction ==
    /\ pc = "start"
    /\ \E r \in {Returned(execute_function(interpreter, program.functions[1], <<>>)).st} :
          /\ interpreter' = r
          /\ pc' = IF r.exc = "None" THEN "done" ELSE "run_raised"
    /\ UNCHANGED <<symbols, connections, symbol_graph, program, parse_exc, output, block,
                   futures, results>>

SpecCalls == InitCalls /\ [][CallFunction]_vars

(***************************************************************************)
(* What a Program contains.                                                *)
(***************************************************************************)
RECURSIVE Flatten(_, _)
\* the statements of stmts[p..] and, recursively, of their bodies and branches
Flatten(stmts, p) ==
    IF p > Len(stmts) THEN <<>>
    ELSE LET stmt == stmts[p]
             RECURSIVE Branches(_)
             Branches(b) == IF b > Len(stmt.branches) THEN <<>>
                            ELSE Flatten(stmt.branches[b], 1) \o Branches(b + 1)
             inner == CASE stmt.k = "IfStatement" ->
                              Flatten(stmt.then_branch, 1) \o Flatten(stmt.else_branch, 1)
                        [] stmt.k \in {"WhileLoop", "ForLoop"} -> Flatten(stmt.body, 1)
                        [] stmt.k = "ParallelBlock" -> Branches(1)
                        [] OTHER -> <<>>
         IN <<stmt>> \o inner \o Flatten(stmts, p + 1)

\* the function nodes of a Program: the entry, then the others
ProgramFunctions(prog) ==
    (IF prog.main_entry # None THEN <<prog.main_entry>> ELSE <<>>) \o prog.functions

\* every statement of a Program: of the function bodies, then the globals
ProgramStatements(prog) ==
    LET fs == ProgramFunctions(prog)
        RECURSIVE Bodies(_)
        Bodies(f) == IF f > Len(fs) THEN <<>> ELSE Flatten(fs[f].body, 1) \o Bodies(f + 1)
    IN Bodies(1) \o Flatten(prog.globals, 1)

RECURSIVE SubExpressions(_)
\* an expression and the expressions below it
SubExpressions(e) ==
    LET RECURSIVE Args(_)
        Args(a) == IF a > Len(e.arguments) THEN <<>>
                   ELSE SubExpressions(e.arguments[a]) \o Args(a + 1)
    IN CASE e.k = "BinaryOp" -> <<e>> \o SubExpressions(e.left) \o SubExpressions(e.right)
         [] e.k = "FunctionCall" -> <<e>> \o Args(1)
         [] OTHER -> <<e>>

\* the expressions that a statement holds itself
StatementExpressions(stmt) ==
    CASE stmt.k = "OutputStatement" -> SubExpressions(stmt.value)
      [] stmt.k = "Assignment" -> SubExpressions(stmt.value)
      [] stmt.k = "ExpressionStatement" -> SubExpressions(stmt.expression)
      [] stmt.k \in {"IfStatement", "WhileLoop"} -> SubExpressions(stmt.condition)
      [] stmt.k = "ForLoop" ->
            SubExpressions(stmt.start) \o SubExpressions(stmt.end) \o SubExpressions(stmt.step)
      [] OTHER -> <<>>

\* the BinaryOp nodes of a Program
ProgramBinaryOps(prog) ==
    LET stmts == ProgramStatements(prog)
        RECURSIVE From(_)
        From(p) == IF p > Len(stmts) THEN <<>>
                   ELSE SelectSeq(StatementExpressions(stmts[p]), LAMBDA e : e.k = "BinaryOp")
                            \o From(p + 1)
    IN From(1)

\* the symbols that the nodes of a Program were built from, one entry per
\* statement node and per function node (the implicit entry has no symbol)
NodeOrigins(prog) ==
    LET nodes == ProgramFunctions(prog) \o ProgramStatements(prog)
    IN [n \in 1..Len(SelectSeq(nodes, LAMBDA x : x.origin # 0)) |->
            SelectSeq(nodes, LAMBDA x : x.origin # 0)[n].origin]

HasBoundary == \E i \in 1..Len(symbols) : symbols[i].type = "OUTER_CIRCLE"

Parsed == pc \in {"parsed", "done", "run_raised"}

(***************************************************************************)
(* Claims about parse and interpret.                                       *)
(***************************************************************************)
\* C1: whenever parse is called on symbols without an OUTER_CIRCLE, whatever
\* the other symbols and the connections, it raises ParseError and returns
\* no Program.
C1_NoBoundaryRaises ==
    (pc # "start" /\ ~HasBoundary) =>
        (pc = "parse_raised" /\ parse_exc = "ParseError" /\ program = None)

\* parse has refused a drawing of MaxInner symbols, a star among them, with
\* explicit connections and no outer circle
C1_Witness ==
    /\ pc = "parse_raised" /\ parse_exc = "ParseError"
    /\ ~HasBoundary
    /\ Len(symbols) >= 3
    /\ connections # <<>>
    /\ \E i \in 1..Len(symbols) : symbols[i].type = "STAR"

\* C2: in the Program that parse returns no symbol is the origin of two
\* statement or function nodes; in particular no star yields two Outputs.
C2_NoSymbolResolvesTwice ==
    Parsed =>
        LET origins == NodeOrigins(program)
        IN \A a, b \in 1..Len(origins) : a # b => origins[a] # origins[b]

HelloWorldDrawing ==
    /\ symbols = Drawing(TRUE, <<Shape("DOUBLE_CIRCLE", ""), Shape("STAR", "")>>, "column")
    /\ connections = <<>>

\* C3: for [OUTER_CIRCLE, DOUBLE_CIRCLE, STAR] without connections, the star
\* below the entry within the thresholds, parse then interpret returns
\* exactly "Hello, World!".
C3_HelloWorld ==
    (HelloWorldDrawing /\ pc \in {"done", "run_raised"}) =>
        (pc = "done" /\ output = "Hello, World!")

\* the literal of the square that supplies the bound of the loop built from
\* pentagon i: its first square parent (None if it has none)
LoopBound(i) ==
    LET parents == _get_parents(symbol_graph, i)
        squares == SelectSeq(parents, LAMBDA p : symbol_graph[p].symbol.type = "SQUARE")
    IN IF squares = <<>> THEN None
       ELSE _parse_literal_from_properties(symbol_graph[squares[1]].symbol)

\* C4: a ForLoop whose pentagon has a square parent of integer literal N and
\* whose body is one Output emits exactly N lines when it is executed.
C4_LoopEmitsBound ==
    Parsed =>
        \A s \in 1..Len(ProgramStatements(program)) :
            LET stmt == ProgramStatements(program)[s]
            IN (/\ stmt.k = "ForLoop"
                /\ LoopBound(stmt.origin) # None
                /\ LoopBound(stmt.origin).value.t = "int"
                /\ Len(stmt.body) = 1
                /\ stmt.body[1].k = "OutputStatement")
               => LET after == execute(GrimoireInterpreter, stmt).st
                  IN /\ after.exc = "None"
                     /\ Len(after.output_buffer) = LoopBound(stmt.origin).value.i

\* C5: parse terminates on every drawing, cyclic connections included: the
\* recursion never re-enters a node without bound (it never runs into the
\* recursion limit).
C5_ParseTerminates == parse_exc # "RecursionError"

\* C6: every BinaryOp that the fill-with-default rule built for an operator
\* with no or one operand is evaluated without error, whatever the operator.
C6_FilledOperatorNeverFails ==
    Parsed =>
        \A b \in 1..Len(ProgramBinaryOps(program)) :
            LET e == ProgramBinaryOps(program)[b]
            IN e.found <= 1 => execute(GrimoireInterpreter, e).st.exc = "None"

\* C7: an ADD built for an operator without operand evaluates to 0, and one
\* built for an operator with the single operand of value V evaluates to V.
C7_AddFillIsNeutral ==
    Parsed =>
        \A b \in 1..Len(ProgramBinaryOps(program)) :
            LET e == ProgramBinaryOps(program)[b]
                r == execute(GrimoireInterpreter, e)
                v == execute(GrimoireInterpreter, e.left)
            IN e.operator = "ADD" =>
                 /\ e.found = 0 => (r.st.exc = "None" /\ r.res = IntV(0))
                 /\ (e.found = 1 /\ v.st.exc = "None") => (r.st.exc = "None" /\ r.res = v.res)

(***************************************************************************)
(* Claims about visit_parallel_block, checked under SpecParallel.          *)
(***************************************************************************)
BlockEnded == pc \in {"block_done", "block_raised"}

\* no statement of the block raises
NoneRaises == \A b \in 1..Len(block) : \A s \in 1..Len(block[b]) : block[b][s] # Failing

\* a block of k >= 1 branches, each emitting one line, none raising
OneLineEach ==
    /\ Len(block) >= 1
    /\ NoneRaises
    /\ \A b \in 1..Len(block) : Len(block[b]) = 1

\* what the block appended to the parent's buffer (the lines of the branches
\* differ from the line that was there before)
Appended ==
    LET buffer == interpreter.output_buffer
    IN IF buffer # <<>> /\ buffer[1] = "before" THEN Tail(buffer) ELSE buffer

\* C8: a ParallelBlock of k branches, each emitting one line and none
\* raising, ends without error and has appended exactly those k lines, each
\* once, in some order, under every interleaving of the workers; until then
\* some step of the block can be taken.
C8_ParallelAppendsEveryLine ==
    OneLineEach =>
        /\ pc # "block_raised"
        /\ pc # "block_done" => ENABLED NextParallel
        /\ pc = "block_done" =>
              /\ Len(Appended) = Len(block)
              /\ \A b \in 1..Len(block) :
                    \E p \in 1..Len(Appended) : Appended[p] = LineName(b, 1)

\* two branches, the second one's line merged first, after an earlier line
C8_Witness ==
    /\ OneLineEach
    /\ pc = "block_done"
    /\ interpreter.output_buffer = <<"before", LineName(2, 1), LineName(1, 1)>>

\* the lines that branch b emitted
BranchLines(b) == futures[b].output_buffer

\* C9: when a branch of a ParallelBlock raises, the block raises
\* InterpreterError, and the output of the branches that completed is in the
\* parent's output buffer.
C9_FailureKeepsCompletedOutput ==
    (Len(block) >= 1 /\ ~NoneRaises /\ BlockEnded) =>
        /\ pc = "block_raised"
        /\ interpreter.exc = "InterpreterError"
        /\ \A b \in 1..Len(block) :
              (futures[b].state = "finished" /\ futures[b].exception = "None") =>
                  \A l \in 1..Len(BranchLines(b)) :
                      \E p \in 1..Len(Appended) : Appended[p] = BranchLines(b)[l]

\* C10: visit_parallel_block neither returns nor raises before every branch
\* has finished, also when a branch failed while others were not done.
C10_JoinWaitsForEveryBranch ==
    BlockEnded => \A b \in 1..Len(block) : futures[b].state = "finished"

\* the failure of a branch has been taken from as_completed while another
\* branch is still running, and the parent is held at the end of the block
C10_Witness ==
    /\ pc = "join_raising"
    /\ \E a, b \in 1..Len(block) :
          /\ futures[b].yielded /\ futures[b].exception # "None"
          /\ futures[a].state = "running" /\ futures[a].ip <= Len(block[a])
    /\ ~ENABLED Join

(***************************************************************************)
(* Claims about the environments of the branches, checked under            *)
(* SpecAssigning.                                                          *)
(***************************************************************************)
\* branch b has an Assignment among its statements
Assigns(b) == \E s \in 1..Len(block[b]) : block[b][s].k = "Assignment"

\* the environment of branch b binds x to the value that b writes
HoldsOwn(b) ==
    /\ futures[b].current_env > 1
    /\ "x" \in DOMAIN interpreter.envs[futures[b].current_env].values
    /\ interpreter.envs[futures[b].current_env].values["x"] = Written(b)

\* C11 as stated: a binding written by an Assign in a branch is observable
\* by the parent after the join, as the value that some branch wrote (the
\* last writer's).
C11_BranchAssignIsShared ==
    (pc = "block_done" /\ \E b \in 1..Len(block) : Assigns(b)) =>
        \E r \in {get(interpreter, interpreter.current_env, "x")} :
            /\ r.st.exc = "None"
            /\ \E b \in 1..Len(block) : Assigns(b) /\ r.res = Written(b)

\* C11 amended: every branch runs in its own environment, whose parent is
\* the shared global one: an Assign of a branch binds the name there, the
\* global environment keeps the bindings it had, and a branch that reads the
\* name gets its own value or the global one, never another branch's.
C11_BranchAssignIsLocal ==
    /\ \A n \in DOMAIN interpreter.envs[1].values :
          n = "x" /\ interpreter.envs[1].values[n] = IntV(0)
    /\ \A b \in 1..Len(block) :
          futures[b].state \in {"running", "finished"} =>
              /\ futures[b].current_env > 1
              /\ interpreter.envs[futures[b].current_env].parent = 1
              /\ \A a \in 1..Len(block) :
                    (a # b /\ futures[a].state \in {"running", "finished"}) =>
                        futures[a].current_env # futures[b].current_env
              /\ \A n \in DOMAIN interpreter.envs[futures[b].current_env].values :
                    n = "x" /\ HoldsOwn(b)
              /\ \A l \in 1..Len(futures[b].output_buffer) :
                    futures[b].output_buffer[l] \in
                        {_value_to_string(IntV(0)), _value_to_string(Written(b))}

\* the block is over: one branch has assigned x, another has read the
\* global 0, which the parent still reads
C11_Witness ==
    /\ pc = "block_done"
    /\ \E a, b \in 1..Len(block) :
          /\ a # b
          /\ HoldsOwn(a)
          /\ futures[b].output_buffer = <<_value_to_string(IntV(0))>>
    /\ get(interpreter, interpreter.current_env, "x").res = IntV(0)

(***************************************************************************)
(* C12.  Determinism.  The first run of a compiler is a run by a new        *)
(* parser and a new interpreter, so two runs on the same symbols and       *)
(* connections agree exactly when every run agrees with the run that new   *)
(* instances make of its input.                                            *)
(***************************************************************************)
\* what parse followed by interpret gives on new instances: the exception
\* that ends the run ("None" if none does) and the string returned
FreshRun(syms, conns) ==
    With(parse(syms, conns), LAMBDA r :
        IF r.exc # "None" THEN [exc |-> r.exc, output |-> ""]
        ELSE With(interpret(GrimoireInterpreter, r.program), LAMBDA i :
                [exc |-> i.exc,
                 output |-> IF i.exc = "None" THEN JoinLines(i.output_buffer, 1) ELSE ""]))

\* what the run that has ended in this state gave
ThisRun ==
    IF pc = "parse_raised" THEN [exc |-> parse_exc, output |-> ""]
    ELSE [exc |-> interpreter.exc, output |-> IF pc = "done" THEN output ELSE ""]

RunEnded == pc \in {"parse_raised", "run_raised", "done"}

\* C12: a run of parse followed by interpret on a parser and an interpreter
\* that have run before returns the output string (or ends with the
\* exception) that a run on the same symbols and connections gives on new
\* instances, so that two runs on the same input return the same bytes
C12_RunsAreDeterministic == RunEnded => ThisRun = FreshRun(symbols, connections)

(***************************************************************************)
(* C13.  The table of literal inference.                                   *)
(***************************************************************************)
\* the literal the table gives: `four` is what it gives for multiple_dots
TableLiteral(pattern, four) ==
    IF pattern = "dot" THEN Literal(IntV(1), "INTEGER")
    ELSE IF pattern = "double_dot" THEN Literal(IntV(2), "INTEGER")
    ELSE IF pattern = "triple_dot" THEN Literal(IntV(3), "INTEGER")
    ELSE IF pattern = "multiple_dots" THEN Literal(IntV(four), "INTEGER")
    ELSE IF pattern = "empty" THEN Literal(IntV(0), "INTEGER")
    ELSE IF pattern = "triple_line" THEN Literal(StrV("Hello, World!"), "STRING")
    ELSE IF pattern \in {"lines", "single_line", "double_line"}
    THEN Literal(StrV("Text"), "STRING")
    ELSE IF pattern = "cross" THEN Literal(BoolV(TRUE), "BOOLEAN")
    ELSE IF pattern = "half_circle" THEN Literal(BoolV(FALSE), "BOOLEAN")
    ELSE IF pattern = "grid" THEN Literal(ListV(<<>>), "ARRAY")
    ELSE IF pattern = "filled" THEN Literal(IntV(-1), "INTEGER")
    ELSE Literal(IntV(0), "INTEGER")

Statement == block[1][1]

\* the bindings of environment e before and after the step
ValuesOf(e) == interpreter.envs[e].values

NewValuesOf(e) == interpreter'.envs[e].values

\* C14: executing an Assign binds the name in the current environment only:
\* every other environment, the global one and every ancestor among them,
\* keeps its bindings even when it binds that name, the other names of the
\* current environment keep theirs, and an Assign of a literal succeeds
\* whether or not the current environment already binds the name
C14_AssignDefinesInCurrentScope ==
    [][(ExecuteStatement /\ Statement.k = "Assignment") =>
          /\ Len(interpreter'.envs) = Len(interpreter.envs)
          /\ interpreter'.current_env = interpreter.current_env
          /\ \A e \in 1..Len(interpreter.envs) :
                e # interpreter.current_env => interpreter'.envs[e] = interpreter.envs[e]
          /\ Statement.value.k = "Literal" => interpreter'.exc = "None"
          /\ interpreter'.exc # "None" => interpreter'.envs = interpreter.envs
          /\ interpreter'.exc = "None" =>
                /\ DOMAIN NewValuesOf(interpreter.current_env)
                      = DOMAIN ValuesOf(interpreter.current_env) \cup {Statement.target}
                /\ \A n \in DOMAIN ValuesOf(interpreter.current_env) :
                      n # Statement.target =>
                          NewValuesOf(interpreter.current_env)[n]
                              = ValuesOf(interpreter.current_env)[n]
                /\ NewValuesOf(interpreter.current_env)[Statement.target]
                      = execute(interpreter, Statement.value).res]_vars

\* x is assigned 5 in the environment of the call while the global one binds
\* x to another value and keeps it
C14_Witness ==
    /\ pc = "done"
    /\ Statement = Assignment("x", Literal(IntV(5), "INTEGER"), 0)
    /\ interpreter.current_env = 2
    /\ "x" \in DOMAIN interpreter.envs[1].values
    /\ interpreter.envs[1].values["x"] = IntV(1)
    /\ interpreter.envs[2].values["x"] = IntV(5)

\* C15: the body of a called function runs in a new environment whose parent
\* is the global one, not the caller's: where only the caller's environment
\* binds x the body's read of x fails with the undefined-variable error,
\* where the global one binds x the body reads the global value, whatever
\* the caller binds; the caller's and the global bindings are left as they
\* were and the caller's environment is current again
C15_CalleeScopeIsGlobal ==
    [][(ExecuteStatement /\ Statement = CallOf("f")) =>
          /\ Len(interpreter'.envs) = Len(interpreter.envs) + 1
          /\ interpreter'.envs[Len(interpreter'.envs)].parent = 1
          /\ interpreter'.current_env = interpreter.current_env
          /\ \A e \in 1..Len(interpreter.envs) : interpreter'.envs[e] = interpreter.envs[e]
          /\ interpreter.functions["f"].body[1].k = "OutputStatement" =>
                IF "x" \in DOMAIN ValuesOf(1)
                THEN /\ interpreter'.exc = "None"
                     /\ interpreter'.output_buffer = <<_value_to_string(ValuesOf(1)["x"])>>
                ELSE /\ interpreter'.exc = "InterpreterError"
                     /\ interpreter'.output_buffer = <<>>
          /\ interpreter.functions["f"].body[1].k = "Assignment" =>
                /\ interpreter'.exc = "None"
                /\ interpreter'.output_buffer = <<_value_to_string(IntV(7))>>]_vars

\* f, which prints x, was called from an environment that binds x while the
\* global one does not, and the call raised
C15_Witness ==
    /\ pc = "run_raised"
    /\ Statement = CallOf("f")
    /\ interpreter.functions["f"].body[1].k = "OutputStatement"
    /\ interpreter.current_env = 2
    /\ "x" \in DOMAIN interpreter.envs[2].values
    /\ "x" \notin DOMAIN interpreter.envs[1].values
    /\ interpreter.exc = "InterpreterError"
    /\ interpreter.envs[3].parent = 1

(***************************************************************************)
(* C16.  interpret without the outer circle.                               *)
(***************************************************************************)
\* C16: interpret of a Program whose has_outer_circle is false raises
\* InterpreterError and has run nothing: no function is registered, no
\* environment is made or written and no line is in the output buffer
C16_NoOuterCircleRunsNothing ==
    [][(Interpret /\ ~program.has_outer_circle) =>
          /\ interpreter'.exc = "InterpreterError"
          /\ pc' = "run_raised"
          /\ interpreter'.functions = interpreter.functions
          /\ interpreter'.envs = interpreter.envs
          /\ interpreter'.current_env = interpreter.current_env
          /\ interpreter'.output_buffer = <<>>]_vars

\* a Program without outer circle that has an entry, a function and a global
\* statement was handed to a new interpreter
C16_Witness ==
    /\ pc = "run_raised"
    /\ ~program.has_outer_circle
    /\ program.main_entry # None
    /\ program.functions # <<>>
    /\ program.globals # <<>>
    /\ interpreter.exc = "InterpreterError"
    /\ interpreter.functions = <<>>
    /\ interpreter.envs = <<Environment(0)>>

(***************************************************************************)
(* C17.  The implicit entry.                                               *)
(***************************************************************************)
NoEntryCircle == MainIndex(symbols) = 0

\* the statements that the global pass resolves on the symbols and the
\* connections of the state, after the pass that resolves the functions
ResolvedGlobals ==
    _parse_global_statements(
        _parse_functions([g |-> _build_symbol_graph(symbols, connections),
                          exc |-> "None", stale |-> <<>>]).st).res

\* the lines that the output statements of literals stmts[p..] print
RECURSIVE LiteralLines(_, _)
LiteralLines(stmts, p) ==
    IF p > Len(stmts) THEN <<>>
    ELSE <<_value_to_string(stmts[p].value.value)>> \o LiteralLines(stmts, p + 1)

C18_StatementsStayGlobal ==
    (pc \in {"parsed", "done", "run_raised"} /\ NoEntryCircle /\ ResolvedGlobals # <<>>) =>
        program.globals # <<>>

\* the integer of a square's pattern
OperandValue(pattern) ==
    IF pattern = "dot" THEN 1
    ELSE IF pattern = "double_dot" THEN 2
    ELSE IF pattern = "triple_dot" THEN 3
    ELSE 0

\* the drawing of the state is two squares into an Add and the Add into a star
IsSum ==
    /\ Len(symbols) = 5
    /\ symbols[4].type = "CONVERGENCE"
    /\ connections = ExpressionWires(symbols[2].pattern, symbols[3].pattern, <<"CONVERGENCE">>)

\* C20: for [outer circle, Square(dot), Square(double_dot), Add, Star] with
\* the connections Square1 -> Add, Square2 -> Add, Add -> Star, parse
\* followed by interpret returns the rendering of 3, three bullets; and for
\* squares of any two patterns of dots it returns the rendering of their sum
C20_SumIsRendered ==
    IsSum =>
        /\ pc \in {"parsed", "done"}
        /\ pc = "done" =>
              /\ output = _value_to_string(IntV(OperandValue(symbols[2].pattern)
                                               + OperandValue(symbols[3].pattern)))
              /\ (symbols[2].pattern = "dot" /\ symbols[3].pattern = "double_dot")
                    => output = "<U+2022><U+2022><U+2022>"

C20_Witness ==
    /\ IsSum
    /\ symbols[2].pattern = "dot"
    /\ symbols[3].pattern = "double_dot"
    /\ pc = "done"
    /\ output = "<U+2022><U+2022><U+2022>"

(***************************************************************************)
(* C19.  A node that is already visited.                                   *)
(***************************************************************************)
\* C19: _parse_statement called on a node whose visited flag is already
\* true returns no statement, for every symbol kind including the star
C19_VisitedGivesNoStatement ==
    [][(pc = "start" /\ symbol_graph[1].visited) => program' = None]_vars

(***************************************************************************)
(* C21.  A connection with an endpoint that is no symbol of the input.     *)
(***************************************************************************)
IsSymbol(sym) == \E k \in 1..Len(symbols) : symbols[k] = sym

IndexOf(sym) == CHOOSE k \in 1..Len(symbols) : symbols[k] = sym

\* the connections of the list with both endpoints in the input
Kept == SelectSeq(connections, LAMBDA c : IsSymbol(c.from_symbol) /\ IsSymbol(c.to_symbol))

ChildrenByKept(i) ==
    LET mine == SelectSeq(Kept, LAMBDA c : IndexOf(c.from_symbol) = i)
    IN [n \in 1..Len(mine) |-> IndexOf(mine[n].to_symbol)]

ParentByKept(i) ==
    LET into == SelectSeq(Kept, LAMBDA c : IndexOf(c.to_symbol) = i)
    IN IF into = <<>> THEN 0 ELSE IndexOf(into[Len(into)].from_symbol)

\* C21: a connection one of whose endpoints matches no symbol of the input
\* adds no edge and raises no error: the edges of the graph are exactly
\* those of the other connections, in list order, parse completes with a
\* Program, and when other connections remain the Program is the one parse
\* returns for them alone
C21_UnmatchedConnectionIsDropped ==
    (pc # "start" /\ Len(Kept) < Len(connections)) =>
        /\ pc # "parse_raised"
        /\ parse_exc = "None"
        /\ program.k = "Program"
        /\ Len(symbol_graph) = Len(symbols)
        /\ \A i \in 1..Len(symbols) :
              /\ symbol_graph[i].children = ChildrenByKept(i)
              /\ symbol_graph[i].parent = ParentByKept(i)
        /\ Kept # <<>> => program = parse(symbols, Kept).program

C21_Witness ==
    /\ pc = "done"
    /\ Len(connections) = 4
    /\ ~IsSymbol(connections[2].from_symbol)
    /\ Len(Kept) = 3
    /\ symbol_graph[4].children = <<5>>
    /\ symbol_graph[4].parent = 3
    /\ output = "<U+2022><U+2022><U+2022>"

(***************************************************************************)
(* C22.  The outer-circle check and the graph.                             *)
(***************************************************************************)
\* C22: the outer-circle check of parse happens before any other work: when
\* parse fails for lack of the outer circle, no node has been created and no
\* connection resolved or inferred, so the symbol graph is what it was
\* before the call
C22_BoundaryCheckComesFirst ==
    [][(pc = "start" /\ pc' = "parse_raised" /\ parse_exc' = "ParseError") =>
          symbol_graph' = symbol_graph]_vars

(***************************************************************************)
(* C23.  The graph of a parser that is used again.                         *)
(***************************************************************************)
\* C23: the node collection is built fresh per parse: after parse(S, C) on a
\* parser that has already parsed another input, the symbol graph holds
\* exactly one node per symbol of S and no node of an earlier call remains
C23_GraphIsBuiltFresh ==
    pc \in {"parsed", "done", "run_raised"} => Len(symbol_graph) = Len(symbols)

(***************************************************************************)
(* C24.  Where the lines of the branches are.                              *)
(***************************************************************************)
\* the lines that the statements of branch b emit when all of them run
EmittedBy(b) ==
    LET outs == SelectSeq([s \in 1..Len(block[b]) |-> s],
                          LAMBDA s : block[b][s].k = "OutputStatement")
    IN [n \in 1..Len(outs) |-> LineName(b, outs[n])]

RECURSIVE EmittedInOrder(_, _)
\* the lines of the branches order[k..], branch after branch
EmittedInOrder(order, k) ==
    IF k > Len(order) THEN <<>> ELSE EmittedBy(order[k]) \o EmittedInOrder(order, k + 1)

\* the orders in which the branches of the block can be merged
BranchOrders ==
    {order \in [1..Len(block) -> 1..Len(block)] :
        \A a, b \in 1..Len(block) : order[a] = order[b] => a = b}

\* C24: the output of the branches of a ParallelBlock is buffered per branch
\* and concatenated into the parent's buffer only after all branches have
\* joined: no line of a branch is in the parent's buffer while a branch is
\* still running, nor at any time before the merge, and after the merge the
\* lines of each branch are contiguous and in the order the branch emitted
\* them, never interleaved with the lines of another branch
C24_BranchOutputIsMergedAfterJoin ==
    /\ pc # "block_done" => Appended = <<>>
    /\ (\E b \in 1..Len(block) : futures[b].state # "finished") => Appended = <<>>
    /\ pc = "block_done" =>
          /\ \A b \in 1..Len(block) : futures[b].state = "finished"
          /\ \E order \in BranchOrders : Appended = EmittedInOrder(order, 1)

\* two branches of two lines each, merged second branch first
C24_Witness ==
    /\ pc = "block_done"
    /\ interpreter.output_buffer =
          <<"before", LineName(2, 1), LineName(2, 2), LineName(1, 1), LineName(1, 2)>>

(***************************************************************************)
(* C25.  The arguments of a circle resolved as an expression.              *)
(***************************************************************************)
\* the expressions of the squares connected into the circle that are not
\* visited, in the order of the nodes
UnvisitedParentLiterals ==
    LET parents == SelectSeq([k \in 1..Len(symbol_graph) |-> k],
                             LAMBDA k : /\ k # 1
                                        /\ symbol_graph[k].children = <<1>>
                                        /\ ~symbol_graph[k].visited)
    IN [n \in 1..Len(parents) |->
            _parse_literal_from_properties(symbol_graph[parents[n]].symbol)]

\* C25: a circle resolved as an expression yields a FunctionCall whose
\* argument list holds the resolved expressions of the circle's parents that
\* were unvisited when the circle was resolved; an unvisited square with one
\* dot connected into the circle yields one argument, the literal 1
C25_CallTakesUnvisitedParents ==
    [][pc = "start" =>
          /\ program'.k = "FunctionCall"
          /\ program'.arguments = UnvisitedParentLiterals]_vars

(***************************************************************************)
(* C26.  The callee of a circle resolved as an expression.                 *)
(***************************************************************************)
\* the FunctionCall nodes of a Program
ProgramCalls(prog) ==
    LET stmts == ProgramStatements(prog)
        RECURSIVE From(_)
        From(p) == IF p > Len(stmts) THEN <<>>
                   ELSE SelectSeq(StatementExpressions(stmts[p]),
                                  LAMBDA e : e.k = "FunctionCall") \o From(p + 1)
    IN From(1)

\* C26: the callee of a FunctionCall made of a circle resolved as an
\* expression defers to the built-ins: interpreting a Program that parse
\* made of an input with such a circle (as a plain circle below the entry
\* circle, no connections) does not raise the invalid-function-call error,
\* that is, no FunctionCall of a parsed Program raises when the interpreter
\* evaluates it
C26_CircleCallDefersToBuiltins ==
    Parsed =>
        \A c \in 1..Len(ProgramCalls(program)) :
            execute(GrimoireInterpreter, ProgramCalls(program)[c]).st.exc = "None"

(***************************************************************************)
(* C27.  An operator with three or more operands.                          *)
(***************************************************************************)
\* the expressions that the operand symbols of the drawing resolve to
OperandExpressions ==
    [k \in 1..(Len(symbols) - 3) |->
        IF symbols[k + 1].type = "SQUARE" THEN _parse_literal_from_properties(symbols[k + 1])
        ELSE BinaryOp(Literal(IntV(0), "INTEGER"), op_map(symbols[k + 1].type),
                      Literal(IntV(0), "INTEGER"), 0)]

\* the expression that the star of the drawing emits
Emitted == program.main_entry.body[1].value

\* C27: an operator with three or more resolvable operand parents resolves
\* to BinaryOp(Literal 0, op, Literal 0), all operands discarded, exactly as
\* an operator with no operand; with one operand the right side is Literal 0
\* and with two the operands are the two sides
C27_ThreeOperandsAreDiscarded ==
    Parsed =>
        /\ Len(program.main_entry.body) = 1
        /\ Emitted.k = "BinaryOp"
        /\ Emitted.operator = op_map(symbols[Len(symbols) - 1].type)
        /\ Emitted.found = Len(OperandExpressions)
        /\ Emitted.left = (IF Len(OperandExpressions) \in {1, 2} THEN OperandExpressions[1]
                           ELSE Literal(IntV(0), "INTEGER"))
        /\ Emitted.right = (IF Len(OperandExpressions) = 2 THEN OperandExpressions[2]
                            ELSE Literal(IntV(0), "INTEGER"))
        /\ (pc = "done" /\ Len(OperandExpressions) \notin {1, 2}) => output = "<U+2205>"
        /\ (pc = "run_raised" /\ Len(OperandExpressions) \notin {1, 2})
              => Emitted.operator = "DIVIDE"

\* three squares of one, two and one dots into an Add: the sum printed is 0
C27_Witness ==
    /\ pc = "done"
    /\ Len(symbols) = 6
    /\ symbols[2].pattern = "dot" /\ symbols[3].pattern = "double_dot"
    /\ symbols[4].pattern = "dot"
    /\ symbols[5].type = "CONVERGENCE"
    /\ Emitted.left = Literal(IntV(0), "INTEGER")
    /\ Emitted.right = Literal(IntV(0), "INTEGER")
    /\ output = "<U+2205>"

(***************************************************************************)
(* C28.  The inferred edges.                                               *)
(***************************************************************************)
\* the children of node i
ChildrenOf(i) == {symbol_graph[i].children[c] : c \in 1..Len(symbol_graph[i].children)}

RECURSIVE ReachedFrom(_, _)
\* the nodes reached from the nodes `from` by n edges or fewer, one at least
ReachedFrom(from, n) ==
    IF n = 0 THEN {}
    ELSE LET next == UNION {ChildrenOf(i) : i \in from}
         IN next \cup ReachedFrom(next, n - 1)

\* C28: with no explicit connections the edges made by the three inference
\* rules never form a cycle, whatever the symbols and their places: no node
\* is reached from itself along the children, nor along the parents
C28_InferredEdgesAreAcyclic ==
    pc = "built" =>
        \A i \in 1..Len(symbol_graph) :
            /\ i \notin ReachedFrom({i}, Len(symbol_graph))
            /\ symbol_graph[i].parent # i
            /\ symbol_graph[i].parent # 0 => i \in ChildrenOf(symbol_graph[i].parent)

\* the three rules have each made an edge: the entry above the square, the
\* square next to the operator, the operator above the star
C28_Witness ==
    /\ pc = "built"
    /\ Len(symbols) = 4
    /\ \E m, a, b, c \in 1..4 :
          /\ symbols[m].type = "DOUBLE_CIRCLE" /\ symbols[a].type = "SQUARE"
          /\ symbols[b].type = "CONVERGENCE" /\ symbols[c].type = "STAR"
          /\ a \in ChildrenOf(m)
          /\ b \in ChildrenOf(a)
          /\ c \in ChildrenOf(b)
          /\ c \in ReachedFrom({m}, 4)

(***************************************************************************)
(* C29.  A ParallelBlock without branches.                                 *)
(***************************************************************************)
\* C29: executing a ParallelBlock with zero branches, which parse makes of
\* a hexagon without children, completes without raising and leaves the
\* output buffer unchanged
C29_EmptyBlockCompletes ==
    (Len(block) = 0 /\ BlockEnded) =>
        /\ pc = "block_done"
        /\ interpreter.exc = "None"
        /\ Appended = <<>>


(***************************************************************************)
(* C30.  The environment after a call.                                     *)
(***************************************************************************)
\* the way the last function of the chain takes
WayOf(prog) ==
    LET last == prog.functions[Len(prog.functions)]
    IN IF Len(last.parameters) = 1
       THEN IF last.parameters[1].default_value = None THEN "missing" ELSE "default"
       ELSE IF last.body[1].k = "ReturnStatement" THEN "return"
       ELSE IF last.body[1].k = "OutputStatement" THEN "end"
       ELSE "error"

\* the lines the levels above the last print once the call below them is
\* over: level k prints the x of its own environment, the deepest first
RECURSIVE LinesAbove(_)
LinesAbove(level) ==
    IF level = 0 THEN <<>> ELSE <<ToString(10 + level)>> \o LinesAbove(level - 1)

\* the lines of a chain that is not cut by an exception
LinesOf(prog) ==
    (CASE WayOf(prog) = "end" -> <<"end">>
       [] WayOf(prog) = "default" -> <<"20">>
       [] OTHER -> <<>>) \o LinesAbove(Len(prog.functions) - 1)

\* C30: after execute_function has returned or raised (end of the body,
\* Return, missing argument, error in the body, in a call of any depth) the
\* current environment is the one it was before the call; every call has
\* made one environment, and after an inner call each level has read its own
\* variable again
C30_CallRestoresEnvironment ==
    [][pc = "start" =>
          /\ interpreter'.current_env = interpreter.current_env
          /\ SubSeq(interpreter'.envs, 1, Len(interpreter.envs)) = interpreter.envs
          /\ Len(interpreter'.envs) = Len(interpreter.envs) + Len(program.functions)
          /\ WayOf(program) \in {"error", "missing"} =>
                /\ pc' = "run_raised"
                /\ interpreter'.exc = "InterpreterError"
                /\ interpreter'.output_buffer = interpreter.output_buffer
          /\ WayOf(program) \in {"end", "return", "default"} =>
                /\ pc' = "done"
                /\ interpreter'.output_buffer = interpreter.output_buffer \o LinesOf(program)]_vars

C30_Witness ==
    /\ pc = "run_raised"
    /\ Len(program.functions) = MaxDepth
    /\ WayOf(program) = "error"
    /\ interpreter.exc = "InterpreterError"
    /\ interpreter.current_env = 2
    /\ Len(interpreter.envs) = 2 + MaxDepth

====
